---- MODULE Spec2Model ----
(***************************************************************************)
(* timeline-css: the playback reconciliation controller                    *)
(* (generateAnimationControls) and the text-patch operations of the        *)
(* dispatch facade (useTimeline), as state machines.                       *)
(*                                                                         *)
(* The host document is modelled by what the controller observes of it:    *)
(* the elements a selector resolves to, the computed animation-duration    *)
(* list of an element, and the native animation objects (Web Animations).  *)
(***************************************************************************)
EXTENDS Integers, Sequences, FiniteSets, TLC

\* ---------------------------------------------------------------- bounds
MaxTime == 2        \* last value of the wall clock, which starts at 1
MaxEls == 1         \* elements of the rendered markup that match `.a`
MaxAnims == 2       \* native animation objects alive in the host at once
MaxCallbacks == 2   \* length of the subscriber list

\* JS `undefined` for an optional number
Undefined == -1

VARIABLES
    now,            \* Date.now()
    doc,            \* host document: [n, cdurs]
    host,           \* native animations alive in the host: object id -> animation
    playState,      \* PlayState {status, offsetTime}
    lastPlayedAt,   \* number | undefined
    callbacks,      \* OnChangeCallback[]
    animations,     \* Animation[] (object ids)
    animationSet,   \* Map<string, Animation>: animation id -> object id
    rules,          \* StyleRule[] last given to updateRules
    issued,         \* callbacks for which an unsubscribe function exists
    dead,           \* callbacks unsubscribed since they were last subscribed
    startedAt,      \* when the controller last started running: construction, play, reset
    playedAt,       \* when play was last called, Undefined before the first call
    elapsed,        \* [from, ran, pausedAt]: the offset last set by play(t), pause(t) or
                    \* reset, the time the controller was running since, and the t of the
                    \* last pause(t) if no play or reset came after it (observation only)
    lastOp,         \* what the last handler did (observation only)
    text,           \* the document of the CSS editor, a sequence of characters
    styleRules,     \* the store's StyleRule[], computed from the stylesheet
    selectedRuleIds,\* the store's selection
    edits,          \* the changes the last handler dispatched (observation only)
    edCall,         \* what the last handler of the facade did (observation only)
    editCount,      \* handler calls so far
    editor,         \* whether an EditorView is attached (the `editor` argument)
    spotlight,      \* the range the editor highlights, [from, to]
    parsed,         \* the last call of a function of parseStylesheet: [fn, input, output]
    htmlSource,     \* the htmlSource argument of useTimeline (the markup, by its elements)
    timers,         \* pending timers of the debounced functions: <<[html, due]>>
    changedAt,      \* when htmlSource changed (observation only)
    rebuilds        \* the calls of updateHMTL the timers made: <<[at, html]>> (observation only)

ctlVars == <<now, doc, host, playState, lastPlayedAt, callbacks, animations,
             animationSet, rules, issued, dead, startedAt, playedAt, elapsed, lastOp>>

edVars ==
    <<text, styleRules, selectedRuleIds, edits, edCall, editCount, editor, spotlight, parsed>>

uiVars == <<htmlSource, timers, changedAt, rebuilds>>

vars == <<ctlVars, edVars, uiVars>>

Min(a, b) == IF a < b THEN a ELSE b
Range(s) == {s[i] : i \in 1..Len(s)}

\* ------------------------------------------------------------ selectors
SelBody == <<"b", "o", "d", "y">>
SelA == <<".", "a">>
SelAAfter == <<".", "a", ":", ":", "a", "f", "t", "e", "r">>
SelAfter == <<":", ":", "a", "f", "t", "e", "r">>

Letters ==
    {"a", "b", "c", "d", "e", "f", "g", "h", "i", "j", "k", "l", "m",
     "n", "o", "p", "q", "r", "s", "t", "u", "v", "w", "x", "y", "z",
     "A", "B", "C", "D", "E", "F", "G", "H", "I", "J", "K", "L", "M",
     "N", "O", "P", "Q", "R", "S", "T", "U", "V", "W", "X", "Y", "Z"}

\* rule.selector.match(/(.*)(::[a-zA-Z]+)$/): the greedy first group makes the
\* match start at the last "::" that is followed by letters up to the end.
PseudoElMatch(selector) ==
    LET n == Len(selector)
        K == {k \in 1..n : /\ k + 2 <= n
                           /\ selector[k] = ":" /\ selector[k + 1] = ":"
                           /\ \A j \in (k + 2)..n : selector[j] \in Letters}
    IN  IF K = {} THEN [matched |-> FALSE, selector |-> selector, psuedoEl |-> <<>>]
        ELSE LET k == CHOOSE x \in K : \A y \in K : y <= x
             IN  [matched |-> TRUE,
                  selector |-> SubSeq(selector, 1, k - 1),
                  psuedoEl |-> SubSeq(selector, k, n)]

\* Elements: 0 is <body>, 1..doc.n are the elements of the markup matching `.a`.
BodyEl == 0

\* document.querySelectorAll(selector): the empty selector is a SyntaxError.
QuerySelectorAll(d, selector) ==
    IF selector = <<>> THEN [threw |-> TRUE, elements |-> <<>>]
    ELSE IF selector = SelBody THEN [threw |-> FALSE, elements |-> <<BodyEl>>]
    ELSE IF selector = SelA THEN [threw |-> FALSE, elements |-> [i \in 1..d.n |-> i]]
    ELSE [threw |-> FALSE, elements |-> <<>>]

\* style.animationDuration.split(',')[rule.animationIndex]: the computed list is
\* as long as the declared one, so an index past its end reads `undefined`.
\* Entries are the milliseconds parseDurationMs makes of them.
ComputedEntry(d, animationIndex) ==
    IF animationIndex + 1 <= Len(d.cdurs) THEN d.cdurs[animationIndex + 1] ELSE Undefined

ComputedLists == {<<0>>, <<3, 0>>}
NoComputedDurations == <<0, 0>>

\* ---------------------------------------------------------------- rules
RuleIds == {"rBare", "rA", "rB", "rBody", "rT"}
Durations == {1, 2}

StyleRuleOf(id, v) ==
    CASE id = "rBody" ->
            [id |-> id, type |-> "animation", selector |-> SelBody, animationIndex |-> 0,
             duration |-> v, delay |-> 0, iterationCount |-> 1, fillMode |-> "none",
             keyframes |-> v]
      [] id = "rA" ->
            [id |-> id, type |-> "animation", selector |-> SelAAfter, animationIndex |-> 1,
             duration |-> 2, delay |-> 0, iterationCount |-> 1, fillMode |-> "forwards",
             keyframes |-> 1]
      [] id = "rB" ->
            [id |-> id, type |-> "animation", selector |-> SelA, animationIndex |-> 0,
             duration |-> v, delay |-> 0, iterationCount |-> 1, fillMode |-> "none",
             keyframes |-> v]
      [] id = "rBare" ->
            [id |-> id, type |-> "animation", selector |-> SelAfter, animationIndex |-> 0,
             duration |-> 1, delay |-> 0, iterationCount |-> 1, fillMode |-> "none",
             keyframes |-> 1]
      [] id = "rT" ->
            [id |-> id, type |-> "transition", selector |-> SelA, animationIndex |-> 0,
             duration |-> 1, delay |-> 0, iterationCount |-> 1, fillMode |-> "both",
             keyframes |-> 1]

\* Rule lists as computeRules returns them (source order, no two animation
\* rules with the same id), for a few stylesheets.
RuleList(ids, v) == [k \in 1..Len(ids) |-> StyleRuleOf(ids[k], v)]

Sheets == {<<>>, <<"rBody">>, <<"rBare", "rBody">>, <<"rBody", "rBare">>, <<"rB", "rA", "rT">>}

RuleLists == {RuleList(ids, v) : ids \in Sheets, v \in Durations}

\* ---------------------------------------------------- native animations
EndTime(a) == a.delay + a.duration * a.iterations

\* Web Animations: an animation is relevant when its effect is current (before
\* or active phase) or in effect (after phase with a forwards fill).
Relevant(a) == a.currentTime < EndTime(a) \/ a.fill \in {"forwards", "both"}

\* document.getAnimations(): the relevant animations of the document.
GetAnimations(h) == {o \in DOMAIN h : Relevant(h[o])}

\* animation.play(): auto-rewinds when the current time is at or past the end.
AnimPlay(a) ==
    [a EXCEPT !.playState = "running",
              !.currentTime = IF a.currentTime < 0 \/ a.currentTime >= EndTime(a)
                              THEN 0 ELSE a.currentTime]

AnimPause(a) == [a EXCEPT !.playState = "paused"]

AnimSeek(a, t) == [a EXCEPT !.currentTime = t]

FreshId(h) == CHOOSE i \in 1..(Cardinality(DOMAIN h) + 1) : i \notin DOMAIN h

Remove(h, objs) == [o \in DOMAIN h \ objs |-> h[o]]


\* ------------------------------------------------------------ updateRules
\* animationSet.get(`${rule.id}...${id}`)
ExistingAnimation(oldSet, animationId) ==
    IF animationId \in DOMAIN oldSet THEN oldSet[animationId] ELSE Undefined

\* effect.setKeyframes(keyframes); effect.updateTiming({...})
UpdateEffect(a, rule, duration, delay) ==
    [a EXCEPT !.keyframes = rule.keyframes, !.duration = duration, !.delay = delay,
              !.fill = rule.fillMode, !.iterations = rule.iterationCount]

\* element.animate(keyframes, {...}); animation.currentTime = playState.offsetTime;
\* then pause() or play() after the controller's status.
NewAnimation(rule, animationId, element, psuedoEl, duration, delay, ps) ==
    LET created == [id |-> animationId, target |-> element, pseudoElement |-> psuedoEl,
                    keyframes |-> rule.keyframes, duration |-> duration, delay |-> delay,
                    fill |-> rule.fillMode, iterations |-> rule.iterationCount,
                    currentTime |-> 0, playState |-> "running"]
        seeded == AnimSeek(created, ps.offsetTime)
    IN  IF ps.status = "paused" THEN AnimPause(seeded) ELSE AnimPlay(seeded)

\* The body of elements.forEach((element, id) => ...) for one element.
\* parseDurationMs(undefined) raises a TypeError (duration.includes).
BindElement(rule, psuedoEl, element, id, acc, d, ps, oldSet) ==
    LET animationId == <<rule.id, id>>
        existing == ExistingAnimation(oldSet, animationId)
        entry == ComputedEntry(d, rule.animationIndex)
        duration == IF entry # 0 THEN entry ELSE rule.duration
        delay == rule.delay
    IN  IF entry = Undefined THEN [acc EXCEPT !.threw = TRUE]
        ELSE IF existing # Undefined /\ existing \in DOMAIN acc.host THEN
            [acc EXCEPT !.host = [@ EXCEPT ![existing] = UpdateEffect(@, rule, duration, delay)],
                        !.newAnimations = Append(@, existing),
                        !.newAnimationMap = (animationId :> existing) @@ @,
                        !.kept = @ + 1]
        ELSE LET obj == FreshId(acc.host)
             IN  [acc EXCEPT !.host = (obj :> NewAnimation(rule, animationId, element, psuedoEl,
                                                            duration, delay, ps)) @@ @,
                             !.newAnimations = Append(@, obj),
                             !.newAnimationMap = (animationId :> obj) @@ @,
                             !.fresh = @ \cup {obj}]

RECURSIVE ElementsLoop(_, _, _, _, _, _, _, _)
ElementsLoop(rule, psuedoEl, elements, i, acc, d, ps, oldSet) ==
    IF i > Len(elements) \/ acc.threw THEN acc
    ELSE ElementsLoop(rule, psuedoEl, elements, i + 1,
                      BindElement(rule, psuedoEl, elements[i], i - 1, acc, d, ps, oldSet),
                      d, ps, oldSet)

\* The body of rules.forEach(rule => ...) for one rule.
BindRule(rule, acc, d, ps, oldSet) ==
    IF rule.type = "transition" THEN acc
    ELSE LET m == PseudoElMatch(rule.selector)
             q == QuerySelectorAll(d, m.selector)
         IN  IF q.threw THEN [acc EXCEPT !.threw = TRUE]
             ELSE ElementsLoop(rule, m.psuedoEl, q.elements, 1, acc, d, ps, oldSet)

RECURSIVE RulesLoop(_, _, _, _, _, _)
RulesLoop(rulesArg, k, acc, d, ps, oldSet) ==
    IF k > Len(rulesArg) \/ acc.threw THEN acc
    ELSE RulesLoop(rulesArg, k + 1, BindRule(rulesArg[k], acc, d, ps, oldSet), d, ps, oldSet)

\* animations.forEach(anim => { if (!newAnimationMap.has(anim.id)) anim.cancel() })
ToCancel(h, anims, newAnimationMap) ==
    {o \in Range(anims) : o \in DOMAIN h /\ h[o].id \notin DOMAIN newAnimationMap}

EmptyMap == [x \in {} |-> 0]

\* updateRules(rulesArg) from controller state c = [host, animations, animationSet,
\* playState]; an exception leaves animations and animationSet as they were.
UpdateRulesOp(c, d, rulesArg) ==
    LET acc0 == [host |-> c.host, newAnimations |-> <<>>, newAnimationMap |-> EmptyMap,
                 threw |-> FALSE, fresh |-> {}, kept |-> 0]
        acc == RulesLoop(rulesArg, 1, acc0, d, c.playState, c.animationSet)
        gone == ToCancel(acc.host, c.animations, acc.newAnimationMap)
    IN  IF acc.threw
        THEN [host |-> acc.host, animations |-> c.animations, animationSet |-> c.animationSet,
              threw |-> TRUE, fresh |-> acc.fresh, kept |-> acc.kept]
        ELSE [host |-> Remove(acc.host, gone), animations |-> acc.newAnimations,
              animationSet |-> acc.newAnimationMap,
              threw |-> FALSE, fresh |-> acc.fresh \ gone, kept |-> acc.kept]

\* ------------------------------------------------------- notifications
CbIds == {"c1", "c2", "c3"}

\* What a subscriber does when it is invoked: c1 calls the unsubscribe function
\* of c2; the others do not call back into the controller.
Unsubscribes(cb) == IF cb = "c1" THEN {"c2"} ELSE {}

\* () => callbacks = callbacks.filter(existing => cb !== existing)
Unsubscribed(cbs, gone) == SelectSeq(cbs, LAMBDA existing : existing \notin gone)

\* callbacks.forEach(cb => cb(playState)): forEach walks the array it was called
\* on, while an unsubscribe inside a callback assigns a new array to `callbacks`.
Invoked(snapshot, current, i) == snapshot[i]

RECURSIVE Deliver(_, _, _, _, _)
Deliver(snapshot, i, acc, iss, ps) ==
    IF i > Len(snapshot) THEN acc
    ELSE LET cb == Invoked(snapshot, acc.callbacks, i)
             victims == Unsubscribes(cb) \cap iss
         IN  Deliver(snapshot, i + 1,
                     [callbacks |-> Unsubscribed(acc.callbacks, victims),
                      dead |-> acc.dead \cup victims,
                      calls |-> Append(acc.calls, [cb |-> cb, state |-> ps]),
                      late |-> acc.late \cup (IF cb \in acc.dead THEN {cb} ELSE {})],
                     iss, ps)

\* a notification that stops after the first subscriber
Notify_FirstOnly(cbs, dd, iss, ps) ==
    Deliver(IF cbs = <<>> THEN cbs ELSE <<Head(cbs)>>, 1,
            [callbacks |-> cbs, dead |-> dd, calls |-> <<>>, late |-> {}], iss, ps)

\* callbacks.forEach(cb => cb(playState))
Notify(cbs, dd, iss, ps) ==
    Deliver(cbs, 1, [callbacks |-> cbs, dead |-> dd, calls |-> <<>>, late |-> {}], iss, ps)


\* ------------------------------------------------------------- handlers
PlayOffsets == {0}        \* play(0) restarts a preview; otherwise play()
PauseOffsets == {0, 2}    \* pause(t): scrubbing, preview offset
NoOffset == Undefined

NoOp == [op |-> "init", arg |-> NoOffset, was |-> "running", threw |-> FALSE, fresh |-> {},
         kept |-> 0, calls |-> <<>>, late |-> {}]

Ctl == [host |-> host, animations |-> animations, animationSet |-> animationSet,
        playState |-> playState]

\* pause that keeps the stored offset and forgets the time played since
PauseOffsetTime_NoElapsed(offsetTime, ps, lpa, t) ==
    IF offsetTime # NoOffset THEN offsetTime ELSE ps.offsetTime

\* pause, line 471: offsetTime ?? (lastPlayedAt ? playState.offsetTime + Date.now()
\* - lastPlayedAt : playState.offsetTime)
PauseOffsetTime(offsetTime, ps, lpa, t) ==
    IF offsetTime # NoOffset THEN offsetTime
    ELSE IF lpa # Undefined /\ lpa # 0 THEN ps.offsetTime + t - lpa
    ELSE ps.offsetTime

\* a pause that does not seek
PauseAnimations_NoSeek(h, anims, offsetTime) ==
    [o \in DOMAIN h |-> IF o \in Range(anims) THEN AnimPause(h[o]) ELSE h[o]]

\* pause: animations.forEach(animation => { seek if offset given; animation.pause() })
PauseAnimations(h, anims, offsetTime) ==
    [o \in DOMAIN h |->
        IF o \in Range(anims)
        THEN AnimPause(IF offsetTime # NoOffset THEN AnimSeek(h[o], offsetTime) ELSE h[o])
        ELSE h[o]]

\* play: document.getAnimations().forEach(animation => { seek if offset given;
\* if (currentTime < endTime) animation.play() })
PlayTargets(h) == GetAnimations(h)

PlayAnimations(h, offsetTime) ==
    [o \in DOMAIN h |->
        IF o \in PlayTargets(h)
        THEN LET a == IF offsetTime # NoOffset THEN AnimSeek(h[o], offsetTime) ELSE h[o]
             IN  IF a.currentTime < EndTime(a) THEN AnimPlay(a) ELSE a
        ELSE h[o]]

PlayOffsetTime(offsetTime, ps) == IF offsetTime # NoOffset THEN offsetTime ELSE ps.offsetTime

\* the offset a call of play or pause sets, if it names one
SetOffset(offsetTime) ==
    IF offsetTime # NoOffset THEN [elapsed EXCEPT !.from = offsetTime, !.ran = 0] ELSE elapsed

\* the time the controller was running, after t more milliseconds
Ran(t) == IF playState.status = "running" THEN [elapsed EXCEPT !.ran = @ + t] ELSE elapsed

DoPause(offsetTime, name) ==
    LET ps == [status |-> "paused",
               offsetTime |-> PauseOffsetTime(offsetTime, playState, lastPlayedAt, now)]
        n == Notify(callbacks, dead, issued, ps)
    IN  /\ host' = PauseAnimations(host, animations, offsetTime)
        /\ lastPlayedAt' = Undefined
        /\ playState' = ps
        /\ callbacks' = n.callbacks
        /\ dead' = n.dead
        /\ lastOp' = [NoOp EXCEPT !.op = name, !.arg = offsetTime, !.was = playState.status,
                                  !.calls = n.calls, !.late = n.late]
        /\ elapsed' = [SetOffset(offsetTime) EXCEPT
                           !.pausedAt = IF offsetTime # NoOffset THEN offsetTime ELSE @]
        /\ UNCHANGED <<edVars, uiVars, now, doc, animations, animationSet, rules, issued, startedAt, playedAt>>

DoPlay(offsetTime, name) ==
    LET ps == [status |-> "running", offsetTime |-> PlayOffsetTime(offsetTime, playState)]
        n == Notify(callbacks, dead, issued, ps)
    IN  /\ host' = PlayAnimations(host, offsetTime)
        /\ playState' = ps
        /\ lastPlayedAt' = now
        /\ callbacks' = n.callbacks
        /\ dead' = n.dead
        /\ startedAt' = now
        /\ playedAt' = now
        /\ lastOp' = [NoOp EXCEPT !.op = name, !.arg = offsetTime, !.was = playState.status,
                                  !.calls = n.calls, !.late = n.late]
        /\ elapsed' = [SetOffset(offsetTime) EXCEPT !.pausedAt = NoOffset]
        /\ UNCHANGED <<edVars, uiVars, now, doc, animations, animationSet, rules, issued>>

Pause(offsetTime) == DoPause(offsetTime, "pause")

Play(offsetTime) == DoPlay(offsetTime, "play")

\* toggle: playState.status === 'paused' ? controls.play() : controls.pause()
Toggle ==
    IF playState.status = "paused" THEN DoPlay(NoOffset, "toggle") ELSE DoPause(NoOffset, "toggle")

\* onChange(cb): callbacks.push(cb), returns the unsubscribe function
OnChange(cb) ==
    /\ Len(callbacks) < MaxCallbacks
    /\ callbacks' = Append(callbacks, cb)
    /\ issued' = issued \cup {cb}
    /\ dead' = dead \ {cb}
    /\ lastOp' = [NoOp EXCEPT !.op = "onChange"]
    /\ UNCHANGED <<edVars, uiVars, now, doc, host, playState, lastPlayedAt, animations, animationSet, rules,
                   startedAt, playedAt, elapsed>>

\* a call of the function onChange(cb) returned, outside any notification
Unsubscribe(cb) ==
    /\ cb \in issued
    /\ callbacks' = Unsubscribed(callbacks, {cb})
    /\ dead' = dead \cup {cb}
    /\ lastOp' = [NoOp EXCEPT !.op = "unsubscribe"]
    /\ UNCHANGED <<edVars, uiVars, now, doc, host, playState, lastPlayedAt, animations, animationSet, rules,
                   issued, startedAt, playedAt, elapsed>>

UpdateRules(rulesArg) ==
    LET r == UpdateRulesOp(Ctl, doc, rulesArg)
    IN  /\ Cardinality(DOMAIN r.host) <= MaxAnims
        /\ rules' = rulesArg
        /\ host' = r.host
        /\ animations' = r.animations
        /\ animationSet' = r.animationSet
        /\ lastOp' = [NoOp EXCEPT !.op = "updateRules", !.was = playState.status,
                                  !.threw = r.threw, !.fresh = r.fresh, !.kept = r.kept]
        /\ UNCHANGED <<edVars, uiVars, now, doc, playState, lastPlayedAt, callbacks, issued, dead, startedAt,
                       playedAt, elapsed>>

\* reset(), lines 560-567, from the line animations = [] on
ResetOp(h, d) ==
    LET ps == [status |-> "running", offsetTime |-> 0]
    IN  UpdateRulesOp([host |-> h, animations |-> <<>>, animationSet |-> EmptyMap,
                       playState |-> ps], d, rules)

\* documentBody.innerHTML = htmlSource: the elements of the old markup leave the
\* document, and with them their animations; <body> itself stays.
Detached(h) == {o \in DOMAIN h : h[o].target # BodyEl}

\* updateHMTL(htmlSource): documentBody.innerHTML = htmlSource; animationControls.reset()
UpdateHMTL(n) ==
    LET d == [doc EXCEPT !.n = n]
        ps == [status |-> "running", offsetTime |-> 0]
        nt == Notify(callbacks, dead, issued, ps)
        h == Remove(host, Detached(host))
        r == ResetOp(h, d)
    IN  /\ Cardinality(DOMAIN r.host) <= MaxAnims
        /\ doc' = d
        /\ lastPlayedAt' = now
        /\ startedAt' = now
        /\ playState' = ps
        /\ callbacks' = nt.callbacks
        /\ dead' = nt.dead
        /\ host' = r.host
        /\ animations' = r.animations
        /\ animationSet' = r.animationSet
        /\ lastOp' = [NoOp EXCEPT !.op = "reset", !.was = playState.status, !.threw = r.threw,
                                  !.fresh = r.fresh, !.kept = r.kept,
                                  !.calls = nt.calls, !.late = nt.late]
        /\ elapsed' = [from |-> 0, ran |-> 0, pausedAt |-> NoOffset]
        /\ UNCHANGED <<edVars, now, rules, issued, playedAt>>

\* the layout effect on refreshCounter and updateHMTL, lines 79-83, with the
\* htmlSource of the render
UpdateHTML(n) ==
    /\ UpdateHMTL(n)
    /\ htmlSource' = n
    /\ UNCHANGED <<timers, changedAt, rebuilds>>

\* wall-clock time passes: running animations advance up to their end time
Advance(a) ==
    IF a.playState = "running" /\ a.currentTime < EndTime(a)
    THEN [a EXCEPT !.currentTime = Min(a.currentTime + 1, EndTime(a))]
    ELSE a

Tick ==
    /\ now < MaxTime
    /\ now' = now + 1
    /\ host' = [o \in DOMAIN host |-> Advance(host[o])]
    /\ lastOp' = [NoOp EXCEPT !.op = "tick"]
    /\ elapsed' = Ran(1)
    /\ UNCHANGED <<edVars, uiVars, doc, playState, lastPlayedAt, callbacks, animations, animationSet, rules,
                   issued, dead, startedAt, playedAt>>

\* `return undefined` of a replaceNode callback: no TransactionSpec
NoChange == [from |-> Undefined, to |-> Undefined, insert |-> <<>>,
             anchor |-> Undefined, head |-> Undefined]

\* no function of parseStylesheet called yet
NoCall == [fn |-> "none", input |-> <<>>, output |-> <<>>]

\* EditorEffect.ClearSpotlight
NoSpotlight == [from |-> Undefined, to |-> Undefined]

\* the editor outside the editing specification: an empty rule, nothing selected
InitEditor ==
    /\ text = <<"a", "{", "}">>
    /\ styleRules = <<>>
    /\ selectedRuleIds = {}
    /\ edits = <<>>
    /\ edCall = [op |-> "init", threw |-> FALSE, refused |-> NoChange, dispatched |-> 0,
                 missing |-> FALSE, changed |-> FALSE]
    /\ editCount = 0
    /\ editor = TRUE
    /\ spotlight = NoSpotlight
    /\ parsed = NoCall

\* the markup is rendered and no timer is pending
InitUi ==
    /\ htmlSource = doc.n
    /\ timers = <<>>
    /\ changedAt = <<>>
    /\ rebuilds = <<>>

\* generateAnimationControls(document), lines 430-437
InitCtl ==
    /\ now = 1
    /\ host = EmptyMap
    /\ playState = [status |-> "running", offsetTime |-> 0]
    /\ callbacks = <<>>
    /\ lastPlayedAt = now
    /\ animations = <<>>
    /\ animationSet = EmptyMap
    /\ rules = <<>>
    /\ issued = {}
    /\ dead = {}
    /\ startedAt = now
    /\ playedAt = Undefined
    /\ elapsed = [from |-> 0, ran |-> 0, pausedAt |-> NoOffset]
    /\ lastOp = NoOp

\* Reconciliation: every stylesheet of Sheets against every markup, while time
\* passes and the controller is toggled.
Init ==
    /\ InitCtl
    /\ InitEditor
    /\ doc \in [n : 0..MaxEls, cdurs : ComputedLists]
    /\ InitUi

Next ==
    \/ Tick
    \/ \E rs \in RuleLists : UpdateRules(rs)
    \/ \E n \in 0..MaxEls : UpdateHTML(n)
    \/ Toggle

Spec == Init /\ [][Next]_vars


\* Playback: stylesheets that animate the markup only, every play/pause/toggle/
\* reset input.
PlaybackSheets == {<<"rB">>, <<"rB", "rA", "rT">>}

PlaybackLists == {RuleList(ids, v) : ids \in PlaybackSheets, v \in Durations}

InitPlayback ==
    /\ InitCtl
    /\ InitEditor
    /\ doc \in [n : 0..MaxEls, cdurs : {NoComputedDurations}]
    /\ InitUi

NextPlayback ==
    \/ Tick
    \/ \E rs \in PlaybackLists : UpdateRules(rs)
    \/ \E n \in 0..MaxEls : UpdateHTML(n)
    \/ \E t \in PlayOffsets \cup {NoOffset} : Play(t)
    \/ \E t \in PauseOffsets \cup {NoOffset} : Pause(t)
    \/ Toggle

SpecPlayback == InitPlayback /\ [][NextPlayback]_vars

\* Notification: subscribers come and go while the controller is driven; the
\* markup has no animated element.
InitNotify ==
    /\ InitCtl
    /\ InitEditor
    /\ doc = [n |-> 0, cdurs |-> <<0>>]
    /\ InitUi

NextNotify ==
    \/ Tick
    \/ \E cb \in CbIds : OnChange(cb)
    \/ \E cb \in CbIds : Unsubscribe(cb)
    \/ UpdateHTML(0)
    \/ \E t \in PlayOffsets \cup {NoOffset} : Play(t)
    \/ \E t \in PauseOffsets \cup {NoOffset} : Pause(t)
    \/ Toggle

SpecNotify == InitNotify /\ [][NextNotify]_vars

\* --- the debounced rebuild of the markup, lines 64-77
DebounceWait == 500     \* debounce(..., 500, { leading: false })
Quantum == 250          \* the step of the clock while the markup is typed
MaxClock == 1501        \* last value of the clock while the markup is typed
MaxChanges == 3         \* changes of htmlSource in a behaviour

\* a render with a new htmlSource: useMemo makes a new debounced function, its
\* dependencies being [htmlSource, updateHMTL], and the layout effect calls it
\* once; the timers of the functions made before stay pending
ChangeHTML(n) ==
    /\ n # htmlSource
    /\ Len(changedAt) < MaxChanges
    /\ htmlSource' = n
    /\ timers' = Append(timers, [html |-> n, due |-> now + DebounceWait])
    /\ changedAt' = Append(changedAt, now)
    /\ UNCHANGED <<ctlVars, edVars, rebuilds>>

\* the timer of a debounced function fires: updateHMTL(htmlSource) with the
\* htmlSource of the render that made the function
TimerFires ==
    /\ timers # <<>>
    /\ timers[1].due <= now
    /\ UpdateHMTL(timers[1].html)
    /\ timers' = Tail(timers)
    /\ rebuilds' = Append(rebuilds, [at |-> now, html |-> timers[1].html])
    /\ UNCHANGED <<htmlSource, changedAt>>

\* time passes, up to the next timer that is due
Wait ==
    /\ now + Quantum <= MaxClock
    /\ \A k \in 1..Len(timers) : timers[k].due >= now + Quantum
    /\ now' = now + Quantum
    /\ host' = [o \in DOMAIN host |->
                    IF host[o].playState = "running" /\ host[o].currentTime < EndTime(host[o])
                    THEN [host[o] EXCEPT
                              !.currentTime = Min(host[o].currentTime + Quantum, EndTime(host[o]))]
                    ELSE host[o]]
    /\ lastOp' = [NoOp EXCEPT !.op = "tick"]
    /\ elapsed' = Ran(Quantum)
    /\ UNCHANGED <<edVars, uiVars, doc, playState, lastPlayedAt, callbacks, animations,
                   animationSet, rules, issued, dead, startedAt, playedAt>>

\* Typing the markup: htmlSource changes while time passes and the timers fire.
InitRebuild ==
    /\ InitCtl
    /\ InitEditor
    /\ doc \in [n : 0..MaxEls, cdurs : {NoComputedDurations}]
    /\ InitUi

NextRebuild ==
    \/ Wait
    \/ \E n \in 0..MaxEls : ChangeHTML(n)
    \/ TimerFires

SpecRebuild == InitRebuild /\ [][NextRebuild]_vars


\* ------------------------------------------------------ stylesheet editor
\* The CSS editor's document is a sequence of characters; positions are
\* CodeMirror offsets (0-based, `to` exclusive).
MaxEdits == 2       \* calls of onChangeDelay / onChangeDuration in a behaviour

Reverse(s) == [i \in 1..Len(s) |-> s[Len(s) + 1 - i]]

Max(a, b) == IF a > b THEN a ELSE b

DigitChars == <<"0", "1", "2", "3", "4", "5", "6", "7", "8", "9">>

IsDigit(c) == \E d \in 1..Len(DigitChars) : DigitChars[d] = c

DigitValue(c) == (CHOOSE d \in 1..Len(DigitChars) : DigitChars[d] = c) - 1

\* `${n}`
RECURSIVE NumberToString(_)
NumberToString(n) ==
    IF n < 0 THEN <<"-">> \o NumberToString(-n)
    ELSE IF n < Len(DigitChars) THEN <<DigitChars[n + 1]>>
    ELSE NumberToString(n \div Len(DigitChars)) \o <<DigitChars[(n % Len(DigitChars)) + 1]>>

\* `${x}` of a number x kept in hundredths: no trailing zeros, no point for a
\* whole number
DecimalToString(h) ==
    LET a == IF h < 0 THEN -h ELSE h
        frac == a % 100
        digits == IF frac = 0 THEN <<>>
                  ELSE IF frac % 10 = 0 THEN <<".", DigitChars[(frac \div 10) + 1]>>
                  ELSE <<".", DigitChars[(frac \div 10) + 1], DigitChars[(frac % 10) + 1]>>
    IN  (IF h < 0 THEN <<"-">> ELSE <<>>) \o NumberToString(a \div 100) \o digits

\* `${n}ms`
Ms(n) == NumberToString(n) \o <<"m", "s">>

\* parseFloat of a whole number with an optional sign; NaN || 0 is 0
RECURSIVE ParseDigits(_, _, _)
ParseDigits(s, i, acc) ==
    IF i > Len(s) \/ ~IsDigit(s[i]) THEN acc
    ELSE ParseDigits(s, i + 1, acc * Len(DigitChars) + DigitValue(s[i]))

ParseFloat(s) ==
    IF s # <<>> /\ s[1] = "-" THEN 0 - ParseDigits(s, 2, 0) ELSE ParseDigits(s, 1, 0)

Includes(s, sub) == \E i \in 1..(Len(s) - Len(sub) + 1) : SubSeq(s, i, i + Len(sub) - 1) = sub

MsPerSecond == 1000

\* parseDurationMs(duration)
ParseDurationMs(duration) ==
    ParseFloat(duration) * (IF Includes(duration, <<"m", "s">>) THEN 1 ELSE MsPerSecond)

PropAnimation == <<"a", "n", "i", "m", "a", "t", "i", "o", "n">>

PropAnimationDelay == <<"a", "n", "i", "m", "a", "t", "i", "o", "n", "-", "d", "e", "l", "a", "y">>

PropAnimationDuration == <<"a", "n", "i", "m", "a", "t", "i", "o", "n", "-", "d", "u", "r", "a", "t", "i",
      "o", "n">>

PropTransition == <<"t", "r", "a", "n", "s", "i", "t", "i", "o", "n">>

PropTransitionDelay == <<"t", "r", "a", "n", "s", "i", "t", "i", "o", "n", "-", "d", "e", "l", "a", "y">>

PropTransitionDuration == <<"t", "r", "a", "n", "s", "i", "t", "i", "o", "n", "-", "d", "u", "r", "a", "t",
      "i", "o", "n">>


\* Stylesheets the editor starts from.
\* a{animation:spin 2s 100ms linear;}
Sheet1 ==
    <<"a", "{", "a", "n", "i", "m", "a", "t", "i", "o", "n", ":", "s", "p", "i", "n",
      " ", "2", "s", " ", "1", "0", "0", "m", "s", " ", "l", "i", "n", "e", "a", "r",
      ";", "}">>

\* a{animation:spin 2s;}
Sheet2 ==
    <<"a", "{", "a", "n", "i", "m", "a", "t", "i", "o", "n", ":", "s", "p", "i", "n",
      " ", "2", "s", ";", "}">>

\* a{animation:spin 3 2s;}
Sheet3 ==
    <<"a", "{", "a", "n", "i", "m", "a", "t", "i", "o", "n", ":", "s", "p", "i", "n",
      " ", "3", " ", "2", "s", ";", "}">>

\* a{animation:spin 2s linear 100ms;}
Sheet4 ==
    <<"a", "{", "a", "n", "i", "m", "a", "t", "i", "o", "n", ":", "s", "p", "i", "n",
      " ", "2", "s", " ", "l", "i", "n", "e", "a", "r", " ", "1", "0", "0", "m", "s",
      ";", "}">>

\* a{animation:spin 2s,fade 1s 50ms;}
Sheet5 ==
    <<"a", "{", "a", "n", "i", "m", "a", "t", "i", "o", "n", ":", "s", "p", "i", "n",
      " ", "2", "s", ",", "f", "a", "d", "e", " ", "1", "s", " ", "5", "0", "m", "s",
      ";", "}">>

\* a{animation:spin 2s;animation-delay:100ms;}
Sheet6 ==
    <<"a", "{", "a", "n", "i", "m", "a", "t", "i", "o", "n", ":", "s", "p", "i", "n",
      " ", "2", "s", ";", "a", "n", "i", "m", "a", "t", "i", "o", "n", "-", "d", "e",
      "l", "a", "y", ":", "1", "0", "0", "m", "s", ";", "}">>

\* a{transition:opacity 1s 100ms;}
Sheet7 ==
    <<"a", "{", "t", "r", "a", "n", "s", "i", "t", "i", "o", "n", ":", "o", "p", "a",
      "c", "i", "t", "y", " ", "1", "s", " ", "1", "0", "0", "m", "s", ";", "}">>

\* a{transition:opacity 1s,color 2s;transition-delay:1s,2s;}
Sheet8 ==
    <<"a", "{", "t", "r", "a", "n", "s", "i", "t", "i", "o", "n", ":", "o", "p", "a",
      "c", "i", "t", "y", " ", "1", "s", ",", "c", "o", "l", "o", "r", " ", "2", "s",
      ";", "t", "r", "a", "n", "s", "i", "t", "i", "o", "n", "-", "d", "e", "l", "a",
      "y", ":", "1", "s", ",", "2", "s", ";", "}">>

\* a{animation:spin;}
Sheet9 ==
    <<"a", "{", "a", "n", "i", "m", "a", "t", "i", "o", "n", ":", "s", "p", "i", "n",
      ";", "}">>

\* a{animation:spin 2s;}@keyframes spin{50%{top:0;}}
Sheet10 ==
    <<"a", "{", "a", "n", "i", "m", "a", "t", "i", "o", "n", ":", "s", "p", "i", "n", " ", "2",
      "s", ";", "}", "@", "k", "e", "y", "f", "r", "a", "m", "e", "s", " ", "s", "p", "i", "n",
      "{", "5", "0", "%", "{", "t", "o", "p", ":", "0", ";", "}", "}">>

\* a{animation:a 2s ease;}@keyframes a{from{animation-timing-function:linear;}to{top:0;}}
Sheet11 ==
    <<"a", "{", "a", "n", "i", "m", "a", "t", "i", "o", "n", ":", "a", " ", "2", "s", " ", "e",
      "a", "s", "e", ";", "}", "@", "k", "e", "y", "f", "r", "a", "m", "e", "s", " ", "a", "{",
      "f", "r", "o", "m", "{", "a", "n", "i", "m", "a", "t", "i", "o", "n", "-", "t", "i", "m",
      "i", "n", "g", "-", "f", "u", "n", "c", "t", "i", "o", "n", ":", "l", "i", "n", "e", "a",
      "r", ";", "}", "t", "o", "{", "t", "o", "p", ":", "0", ";", "}", "}">>

\* b{animation:spin 2s;}
Sheet12 ==
    <<"b", "{", "a", "n", "i", "m", "a", "t", "i", "o", "n", ":", "s", "p", "i", "n", " ", "2",
      "s", ";", "}">>

\* a{animation:x 2s;}@keyframes x{to{top:0;}from{top:0;}}
Sheet13 ==
    <<"a", "{", "a", "n", "i", "m", "a", "t", "i", "o", "n", ":", "x", " ", "2", "s", ";", "}",
      "@", "k", "e", "y", "f", "r", "a", "m", "e", "s", " ", "x", "{", "t", "o", "{", "t", "o",
      "p", ":", "0", ";", "}", "f", "r", "o", "m", "{", "t", "o", "p", ":", "0", ";", "}",
      "}">>

\* a{animation:x 2s;}a{animation:y 1s;}
Sheet14 ==
    <<"a", "{", "a", "n", "i", "m", "a", "t", "i", "o", "n", ":", "x", " ", "2", "s", ";", "}",
      "a", "{", "a", "n", "i", "m", "a", "t", "i", "o", "n", ":", "y", " ", "1", "s", ";",
      "}">>

EditorSheets ==
    {Sheet1, Sheet2, Sheet3, Sheet4, Sheet5, Sheet6, Sheet7, Sheet8, Sheet9, Sheet10, Sheet11,
     Sheet12, Sheet13, Sheet14}

\* --- the syntax tree of the document (@lezer/css), as far as the handlers
\* read it: a RuleSet with its Block, the Block's Declarations, and under a
\* Declaration the PropertyName, ":" and the value nodes, each with its range.
Node(name, from, to) == [name |-> name, from |-> from, to |-> to]

\* editor.state.sliceDoc(from, to)
SliceDoc(t, from, to) == SubSeq(t, from + 1, to)

Whitespace == {" ", "\n"}

TokenStops == Whitespace \cup {",", ";", ":", "{", "}"}

\* where the token that starts at i ends; a callee with its ArgList, up to the
\* closing parenthesis, is one token
RECURSIVE TokenEnd(_, _)
TokenEnd(t, i) ==
    IF i >= Len(t) \/ t[i + 1] \in TokenStops THEN i
    ELSE IF t[i + 1] = "("
    THEN LET closing == {j \in (i + 1)..Len(t) : t[j] = ")"}
         IN  IF closing = {} THEN Len(t) ELSE CHOOSE j \in closing : \A k \in closing : j <= k
    ELSE TokenEnd(t, i + 1)

\* a token that starts with a digit, or a sign and a digit, is a NumberLiteral
\* (the unit is part of the node); a callee with arguments is a CallExpression;
\* any other word is a ValueName
NodeName(t, i, end) ==
    IF IsDigit(t[i + 1]) \/ (t[i + 1] = "-" /\ i + 1 < Len(t) /\ IsDigit(t[i + 2]))
    THEN "NumberLiteral"
    ELSE IF t[end] = ")" THEN "CallExpression"
    ELSE "ValueName"

\* the siblings that follow the PropertyName, up to the end of the declaration
RECURSIVE ValueNodes(_, _, _)
ValueNodes(t, i, acc) ==
    IF i >= Len(t) \/ t[i + 1] \in {";", "}"} THEN [nodes |-> acc, end |-> i]
    ELSE IF t[i + 1] \in Whitespace THEN ValueNodes(t, i + 1, acc)
    ELSE IF t[i + 1] \in {",", ":"}
         THEN ValueNodes(t, i + 1, Append(acc, Node(t[i + 1], i, i + 1)))
    ELSE LET token(e) == ValueNodes(t, e, Append(acc, Node(NodeName(t, i, e), i, e)))
         IN  token(TokenEnd(t, i))

\* block.getChildren('Declaration'): firstChild is the PropertyName, rest its
\* later siblings
RECURSIVE Declarations(_, _, _)
Declarations(t, i, acc) ==
    IF i >= Len(t) \/ t[i + 1] = "}" THEN acc
    ELSE IF t[i + 1] \in Whitespace \cup {";"} THEN Declarations(t, i + 1, acc)
    ELSE LET declaration(e, v) ==
                 Declarations(t, v.end, Append(acc, [firstChild |-> Node("PropertyName", i, e),
                                                     rest |-> v.nodes, to |-> v.end]))
             value(e) == declaration(e, ValueNodes(t, e, <<>>))
         IN  value(TokenEnd(t, i))

\* where the block that starts at i ends: after its closing brace
BlockTo(t, i) == CHOOSE j \in (i + 1)..Len(t) : t[j] = "}" /\ \A k \in (i + 1)..(j - 1) : t[k] # "}"

PropertyNameOf(t, declaration) ==
    SliceDoc(t, declaration.firstChild.from, declaration.firstChild.to)

AtKeyframes ==
    <<"@", "k", "e", "y", "f", "r", "a", "m", "e", "s", " ">>

\* the children of a KeyframeList after its opening brace at i: the keyframe
\* selectors (from, to, NumberLiteral), "," and the Blocks, then the offset
\* after the closing brace of the list
RECURSIVE KeyframeListChildren(_, _, _)
KeyframeListChildren(t, i, acc) ==
    IF i >= Len(t) THEN [nodes |-> acc, end |-> i]
    ELSE IF t[i + 1] = "}" THEN [nodes |-> acc, end |-> i + 1]
    ELSE IF t[i + 1] \in Whitespace THEN KeyframeListChildren(t, i + 1, acc)
    ELSE IF t[i + 1] = ","
    THEN KeyframeListChildren(t, i + 1, Append(acc, Node(",", i, i + 1)))
    ELSE LET child(name, e) == KeyframeListChildren(t, e, Append(acc, Node(name, i, e)))
             selector(word, e) == child(IF word = <<"f", "r", "o", "m">> THEN "from"
                                        ELSE IF word = <<"t", "o">> THEN "to"
                                        ELSE "NumberLiteral", e)
             token(e) == selector(SliceDoc(t, i, e), e)
         IN  IF t[i + 1] = "{" THEN child("Block", BlockTo(t, i)) ELSE token(TokenEnd(t, i))

\* the first offset from i on whose character is in `chars` (or is not, when
\* `member` is FALSE); Len(t) when there is none
Find(t, i, chars, member) ==
    CHOOSE k \in i..Len(t) :
        /\ k = Len(t) \/ (t[k + 1] \in chars) = member
        /\ \A j \in i..(k - 1) : (t[j + 1] \in chars) # member

\* the statements of the document from offset i on, in order: a RuleSet with
\* its Block, or a KeyframesStatement with its KeyframeList
RECURSIVE Statements(_, _, _)
Statements(t, i, acc) ==
    LET next(name, from, block, to) ==
            Statements(t, to, Append(acc, [name |-> name, from |-> from, block |-> block,
                                           to |-> to]))
        statement(from, block) ==
            IF block >= Len(t) THEN acc
            ELSE IF t[from + 1] = "@"
            THEN next("KeyframesStatement", from, block,
                      KeyframeListChildren(t, block + 1, <<>>).end)
            ELSE next("RuleSet", from, block, BlockTo(t, block))
        from(k) == IF k >= Len(t) THEN acc ELSE statement(k, Find(t, k, {"{"}, TRUE))
    IN  from(Find(t, i, Whitespace, FALSE))

RuleSets(t) == SelectSeq(Statements(t, 0, <<>>), LAMBDA n : n.name = "RuleSet")

\* sliceDoc(ruleSet.from, block.from).replaceAll(/(\n|\s)/g, '')
SelectorOf(t, ruleSet) ==
    SelectSeq(SliceDoc(t, ruleSet.from, ruleSet.block), LAMBDA c : c \notin Whitespace)

\* where the Block of the first RuleSet of the document starts
BlockFrom(t) == RuleSets(t)[1].block

\* the selector of the first RuleSet
SelectorText(t) == SelectorOf(t, RuleSets(t)[1])

\* a lookup that takes the first RuleSet whatever its selector
GetMatchingRuleSyntaxNode_AnySelector(t, selector) ==
    LET first(ruleSets) == [found |-> editor, block |-> ruleSets[1].block,
                            from |-> ruleSets[1].from, to |-> ruleSets[1].to]
    IN  first(RuleSets(t))

\* getMatchingRuleSyntaxNode(selector): the first RuleSet, in the order of the
\* document, whose selector is the one asked for; null (found = FALSE) without
\* an editor or when no RuleSet has the selector
GetMatchingRuleSyntaxNode(t, selector) ==
    LET first(matching) ==
            IF ~editor \/ matching = <<>>
            THEN [found |-> FALSE, block |-> 0, from |-> 0, to |-> 0]
            ELSE [found |-> TRUE, block |-> matching[1].block, from |-> matching[1].from,
                  to |-> matching[1].to]
    IN  first(SelectSeq(RuleSets(t),
                        LAMBDA n : SelectorOf(t, n) = SelectSeq(selector, LAMBDA c : c # " ")))

\* the Declarations of the first RuleSet
BlockDeclarations(t) == Declarations(t, BlockFrom(t) + 1, <<>>)

\* where the KeyframesStatements named animationName start
KeyframesStatements(t, animationName) ==
    {i \in 0..(Len(t) - Len(AtKeyframes)) :
        /\ SliceDoc(t, i, i + Len(AtKeyframes)) = AtKeyframes
        /\ SliceDoc(t, i + Len(AtKeyframes), TokenEnd(t, i + Len(AtKeyframes))) = animationName}

\* the KeyframeList of the statement at i
KeyframeListAt(t, i) ==
    KeyframeListChildren(t, TokenEnd(t, i + Len(AtKeyframes)) + 1, <<>>)

\* getMatchingKeyframeSyntaxNode(animationName): the first KeyframesStatement
\* whose KeyframeName is animationName; null without an editor or a match
GetMatchingKeyframeSyntaxNode(t, animationName) ==
    LET node(i, list) == [found |-> TRUE, from |-> i, to |-> list.end, children |-> list.nodes]
        first(i) == node(i, KeyframeListAt(t, i))
        among(at) == IF ~editor \/ at = {}
                     THEN [found |-> FALSE, from |-> 0, to |-> 0, children |-> <<>>]
                     ELSE first(CHOOSE i \in at : \A j \in at : i <= j)
    IN  among(KeyframesStatements(t, animationName))

\* NamedCurves, control points and step counts; a control point is kept in
\* hundredths
NamedCurves ==
    (<<"e", "a", "s", "e">> :> [type |-> "curve", cps |-> <<25, 10, 25, 100>>]) @@
    (<<"l", "i", "n", "e", "a", "r">> :> [type |-> "curve", cps |-> <<25, 25, 75, 75>>]) @@
    (<<"e", "a", "s", "e", "-", "i", "n">> :> [type |-> "curve", cps |-> <<42, 0, 100, 100>>]) @@
    (<<"e", "a", "s", "e", "-", "o", "u", "t">> :> [type |-> "curve", cps |-> <<0, 0, 58, 100>>]) @@
    (<<"e", "a", "s", "e", "-", "i", "n", "-", "o", "u", "t">>
        :> [type |-> "curve", cps |-> <<42, 0, 58, 100>>]) @@
    (<<"s", "t", "e", "p", "-", "s", "t", "a", "r", "t">>
        :> [type |-> "steps", steps |-> 1, jumpTerm |-> "jump-start"]) @@
    (<<"s", "t", "e", "p", "-", "e", "n", "d">> :> [type |-> "steps", steps |-> 1, jumpTerm |-> "jump-end"])

\* animationKeyFrames[animationName] ?? []: the progress (in percent) of each
\* keyframe selector of the last @keyframes rule of that name, sorted
AnimationKeyFrames(t, animationName) ==
    LET progress(n) == IF n.name = "from" THEN 0 ELSE IF n.name = "to" THEN 100
                       ELSE ParseFloat(SliceDoc(t, n.from, n.to))
        sorted(keys) == SortSeq([k \in 1..Len(keys) |-> progress(keys[k])], LAMBDA a, b : a < b)
        last(i) == sorted(SelectSeq(KeyframeListAt(t, i).nodes,
                                    LAMBDA n : n.name \in {"from", "to", "NumberLiteral"}))
        among(at) == IF at = {} THEN <<>> ELSE last(CHOOSE i \in at : \A j \in at : j <= i)
    IN  among(KeyframesStatements(t, animationName))

\* --- the style sheet the browser builds from the document, and computeRules
RECURSIVE SplitSlots(_, _, _)
SplitSlots(nodes, k, acc) ==
    IF k > Len(nodes) THEN acc
    ELSE IF nodes[k].name = ":" THEN SplitSlots(nodes, k + 1, acc)
    ELSE IF nodes[k].name = "," THEN SplitSlots(nodes, k + 1, Append(acc, <<>>))
    ELSE SplitSlots(nodes, k + 1, [acc EXCEPT ![Len(acc)] = Append(@, nodes[k])])

\* the comma-separated items of a declaration's value
Slots(nodes) == SplitSlots(nodes, 1, << <<>> >>)

\* a <time>: a number with the unit s or ms
IsTime(t, node) == node.name = "NumberLiteral" /\ t[node.to] = "s"

Times(t, slot) == SelectSeq(slot, LAMBDA n : IsTime(t, n))

Unitless(t, slot) == SelectSeq(slot, LAMBDA n : n.name = "NumberLiteral" /\ ~IsTime(t, n))

TimeMs(t, node) == ParseDurationMs(SliceDoc(t, node.from, node.to))

\* The browser keeps an `animation` / `transition` declaration only if every
\* item has at most two times, the first of them not negative, and at most one
\* plain number (the iteration count; none in a transition).
ValidShorthand(t, declaration, kind) ==
    \A s \in Range(Slots(declaration.rest)) :
        /\ Len(Times(t, s)) <= 2
        /\ Len(Times(t, s)) >= 1 => TimeMs(t, Times(t, s)[1]) >= 0
        /\ Len(Unitless(t, s)) <= (IF kind = PropAnimation THEN 1 ELSE 0)

\* index of the declaration that sets the shorthand `kind`, 0 when none does
ShorthandAt(t, decls, kind) ==
    LET at == {k \in 1..Len(decls) :
                  PropertyNameOf(t, decls[k]) = kind /\ ValidShorthand(t, decls[k], kind)}
    IN  IF at = {} THEN 0 ELSE CHOOSE k \in at : \A j \in at : j <= k

\* rule.style.animationDuration / animationDelay (transition...) as a list of
\* milliseconds: the longhand `kind-suffix` when it follows the shorthand, else
\* the nth time of each item of the shorthand (0s when absent)
TimeList(t, decls, kind, suffix, nth) ==
    LET sh == ShorthandAt(t, decls, kind)
        longhands == {k \in (sh + 1)..Len(decls) : PropertyNameOf(t, decls[k]) = kind \o suffix}
        slots == Slots(decls[sh].rest)
    IN  IF longhands # {}
        THEN LET k == CHOOSE k \in longhands : \A j \in longhands : j <= k
                 times == Times(t, decls[k].rest)
             IN  [i \in 1..Len(times) |-> TimeMs(t, times[i])]
        ELSE [i \in 1..Len(slots) |->
                 IF Len(Times(t, slots[i])) >= nth THEN TimeMs(t, Times(t, slots[i])[nth]) ELSE 0]

\* durations[j] ?? durations[durations.length - 1]
ListAt(list, j) == IF j + 1 <= Len(list) THEN list[j + 1] ELSE list[Len(list)]

\* the StyleRules of one kind ("animation" or "transition"), one per item j
RulesOfKind(t, decls, kind, selectorText) ==
    LET sh == ShorthandAt(t, decls, kind)
        durations == TimeList(t, decls, kind, <<"-", "d", "u", "r", "a", "t", "i", "o", "n">>, 1)
        delays == TimeList(t, decls, kind, <<"-", "d", "e", "l", "a", "y">>, 2)
        first(names) == IF names = <<>> THEN <<>> ELSE SliceDoc(t, names[1].from, names[1].to)
        name(slot) ==
            first(SelectSeq(slot, LAMBDA n : /\ n.name = "ValueName"
                                             /\ SliceDoc(t, n.from, n.to) \notin DOMAIN NamedCurves))
        rule(j, animationName, duration, delay) ==
            [id |-> IF kind = PropAnimation
                    THEN animationName \o <<" ">> \o selectorText \o <<" ">> \o NumberToString(j)
                    ELSE selectorText \o <<" ">> \o animationName \o <<" ">> \o NumberToString(j),
             type |-> kind,
             selector |-> selectorText,
             animationName |-> IF kind = PropAnimation THEN animationName
                               ELSE <<"t", " ">> \o animationName,
             keyframes |-> IF kind = PropAnimation THEN AnimationKeyFrames(t, animationName)
                           ELSE <<0, 100>>,
             animationIndex |-> j,
             duration |-> IF kind = PropAnimation /\ duration = 0 THEN 1 ELSE duration,
             delay |-> delay]
        each(slots) == [i \in 1..Len(slots) |->
                           rule(i - 1, name(slots[i]), ListAt(durations, i - 1),
                                ListAt(delays, i - 1))]
    IN  IF sh = 0 \/ durations = <<>> \/ delays = <<>> THEN <<>>
        ELSE each(Slots(decls[sh].rest))

\* computeRules(styleEl.sheet.cssRules): the rules of each RuleSet in the
\* order of the sheet, its animations before its transitions; an animation
\* whose id was added already is left out
ComputeRules(t) ==
    LET slots(decls, selectorText) ==
            RulesOfKind(t, decls, PropAnimation, selectorText)
            \o RulesOfKind(t, decls, PropTransition, selectorText)
        RECURSIVE reduce(_, _)
        reduce(ruleSets, k) ==
            IF k > Len(ruleSets) THEN <<>>
            ELSE slots(Declarations(t, ruleSets[k].block + 1, <<>>), SelectorOf(t, ruleSets[k]))
                 \o reduce(ruleSets, k + 1)
        added(found) ==
            {n \in 1..Len(found) :
                \/ found[n].type # PropAnimation
                \/ \A h \in 1..(n - 1) :
                       found[h].type # PropAnimation \/ found[h].id # found[n].id}
        kept(found, ns) ==
            [i \in 1..Cardinality(ns) |->
                found[CHOOSE n \in ns : Cardinality({h \in ns : h <= n}) = i]]
        push(found) == kept(found, added(found))
    IN  push(reduce(RuleSets(t), 1))

\* an id that no StyleRule has
NoRuleId == <<>>

\* the ids the handlers are called with: those of the rules of the store, and
\* one that is not there
EditorRuleIds == {styleRules[i].id : i \in 1..Len(styleRules)} \cup {NoRuleId}

\* --- the handlers' edits. A TransactionSpec is modelled by its one change
\* {from, to, insert} and its selection {anchor, head} (Undefined when the
\* spec names no selection).
Change(from, to, insert) ==
    [from |-> from, to |-> to, insert |-> insert, anchor |-> Undefined, head |-> Undefined]

\* selection: { anchor, head }
Select(change, anchor, head) == [change EXCEPT !.anchor = anchor, !.head = head]

\* the document editor.dispatch({changes: [{from, to, insert}]}) leaves
Dispatch(t, change) ==
    SubSeq(t, 1, change.from) \o change.insert \o SubSeq(t, change.to + 1, Len(t))

\* editor.dispatch raises a RangeError ("Selection points outside of
\* document") for a selection that ends after the new document, and then
\* applies nothing
DispatchThrows(t, change) ==
    /\ change.anchor # Undefined
    /\ Max(change.anchor, change.head) > Len(t) - (change.to - change.from) + Len(change.insert)

\* case 'animation' / 'transition' of onChangeDelay: at the first NumberLiteral
\* of the item, replace its next sibling if that is a NumberLiteral, else insert
\* after it
RECURSIVE ShorthandDelay(_, _, _, _, _)
ShorthandDelay(children, k, currentAnimationIndex, animationIndex, offsetDelay) ==
    IF k > Len(children) THEN NoChange
    ELSE LET child == children[k]
         IN  IF child.name = ","
             THEN ShorthandDelay(children, k + 1, currentAnimationIndex + 1, animationIndex,
                                 offsetDelay)
             ELSE IF currentAnimationIndex # animationIndex \/ child.name # "NumberLiteral"
             THEN ShorthandDelay(children, k + 1, currentAnimationIndex, animationIndex,
                                 offsetDelay)
             ELSE IF k < Len(children) /\ children[k + 1].name = "NumberLiteral"
             THEN Select(Change(children[k + 1].from, children[k + 1].to, Ms(offsetDelay)),
                         children[k + 1].from, children[k + 1].from + Len(Ms(offsetDelay)))
             ELSE Select(Change(child.to, child.to, <<" ">> \o Ms(offsetDelay)),
                         child.from, child.to)

\* the other cases: replace the first NumberLiteral of the item; the case
\* 'transition-delay' does not count the commas (byItem = FALSE) and selects
\* up to child.to, the others up to child.to + `${ms}ms`.length
RECURSIVE FirstNumber(_, _, _, _, _, _)
FirstNumber(children, k, currentAnimationIndex, animationIndex, ms, byItem) ==
    IF k > Len(children) THEN NoChange
    ELSE LET child == children[k]
         IN  IF byItem /\ child.name = ","
             THEN FirstNumber(children, k + 1, currentAnimationIndex + 1, animationIndex, ms,
                              byItem)
             ELSE IF (byItem /\ currentAnimationIndex # animationIndex)
                     \/ child.name # "NumberLiteral"
             THEN FirstNumber(children, k + 1, currentAnimationIndex, animationIndex, ms, byItem)
             ELSE Select(Change(child.from, child.to, Ms(ms)), child.from,
                         IF byItem THEN child.to + Len(Ms(ms)) ELSE child.to)

\* the replaceNode callbacks of onChangeDelay (lines 285-322 and 324-363)
DelayReplaceNode(rule, offsetDelay, propertyName, children) ==
    IF rule.type = PropTransition
    THEN IF propertyName = PropTransition
         THEN ShorthandDelay(children, 1, 0, rule.animationIndex, offsetDelay)
         ELSE IF propertyName = PropTransitionDelay
         THEN FirstNumber(children, 1, 0, rule.animationIndex, offsetDelay, FALSE)
         ELSE NoChange
    ELSE IF propertyName = PropAnimation
         THEN ShorthandDelay(children, 1, 0, rule.animationIndex, offsetDelay)
         ELSE IF propertyName = PropAnimationDelay
         THEN FirstNumber(children, 1, 0, rule.animationIndex, offsetDelay, TRUE)
         ELSE NoChange

\* the replaceNode callbacks of onChangeDuration (lines 375-406 and 408-440)
DurationReplaceNode(rule, offsetDuration, propertyName, children) ==
    IF rule.type = PropTransition
    THEN IF propertyName \in {PropTransition, PropTransitionDuration}
         THEN FirstNumber(children, 1, 0, rule.animationIndex, offsetDuration, TRUE)
         ELSE NoChange
    ELSE IF propertyName \in {PropAnimation, PropAnimationDuration}
         THEN FirstNumber(children, 1, 0, rule.animationIndex, offsetDuration, TRUE)
         ELSE NoChange

\* `cubic-bezier(${curve})`: the four numbers of the ControlPoints joined by ","
CurveString(curve) ==
    <<"c", "u", "b", "i", "c", "-", "b", "e", "z", "i", "e", "r", "(">> \o DecimalToString(curve[1]) \o <<",">>
        \o DecimalToString(curve[2]) \o <<",">> \o DecimalToString(curve[3]) \o <<",">>
        \o DecimalToString(curve[4]) \o <<")">>

\* `  cubic-bezier(${curve})` where `curve` is the NamedCurves entry that
\* shadows the argument of updateEasing: an object, printed as [object Object]
NamedCurveString ==
    <<" ", " ", "c", "u", "b", "i", "c", "-", "b", "e", "z", "i", "e", "r", "(", "[", "o", "b",
      "j", "e", "c", "t", " ", "O", "b", "j", "e", "c", "t", "]", ")">>

\* editorState.doc.sliceString(from, to) of the state read when updateEasing
\* was entered
SliceString(t, from, to) == SubSeq(t, Min(from, Len(t)) + 1, Min(to, Len(t)))

\* the replaceNode callback of updateEasing, case 'animation' (lines 246-272)
RECURSIVE EasingReplaceNode(_, _, _, _, _)
EasingReplaceNode(children, k, currentAnimationIndex, animationIndex, arg) ==
    IF k > Len(children) THEN NoChange
    ELSE LET child == children[k]
             raw == SliceString(arg.editorState, child.from, child.to)
         IN  IF child.name = ","
             THEN EasingReplaceNode(children, k + 1, currentAnimationIndex + 1, animationIndex,
                                    arg)
             ELSE IF currentAnimationIndex # animationIndex
             THEN EasingReplaceNode(children, k + 1, currentAnimationIndex, animationIndex, arg)
             ELSE IF child.name = "CallExpression"
             THEN IF SubSeq(raw, 1, Min(Len(raw), 12)) # <<"c", "u", "b", "i", "c", "-", "b", "e", "z", "i", "e", "r">>
                  THEN NoChange
                  ELSE Select(Change(child.from, child.to, CurveString(arg.curve)),
                              child.from, child.from + Len(CurveString(arg.curve)))
             ELSE IF child.name = "ValueName" /\ raw \in DOMAIN NamedCurves
             THEN Select(Change(child.from, child.to, NamedCurveString),
                         child.from, child.from + Len(NamedCurveString))
             ELSE EasingReplaceNode(children, k + 1, currentAnimationIndex, animationIndex, arg)

\* the replaceNode callback a handler passes to updateRulePropertyValue; arg is
\* what the callback closes over: the milliseconds, or the curve and the
\* editor state of updateEasing
ReplaceNode(what, rule, arg, propertyName, children) ==
    IF what = "delay" THEN DelayReplaceNode(rule, arg, propertyName, children)
    ELSE IF what = "duration" THEN DurationReplaceNode(rule, arg, propertyName, children)
    ELSE IF propertyName = PropAnimation
    THEN EasingReplaceNode(children, 1, 0, rule.animationIndex, arg)
    ELSE NoChange

\* updateRulePropertyValue(selector, replaceNode): the declarations last to
\* first, the first result that is not undefined; NoChange when nothing is
\* dispatched
UpdateRulePropertyValue(t, what, rule, arg) ==
    LET reduce(results) ==
            LET hits == {k \in 1..Len(results) : results[k] # NoChange}
            IN  IF hits = {} THEN NoChange ELSE results[CHOOSE k \in hits : \A j \in hits : k <= j]
        each(children) ==
            reduce([k \in 1..Len(children) |->
                       ReplaceNode(what, rule, arg, PropertyNameOf(t, children[k]),
                                   children[k].rest)])
        block(nodes) == IF ~nodes.found THEN NoChange
                        ELSE each(Reverse(Declarations(t, nodes.block + 1, <<>>)))
    IN  block(GetMatchingRuleSyntaxNode(t, rule.selector))

\* storeRef.current.styleRules.filter(rule => selectedRuleIds.has(rule.id))
SelectedRules == SelectSeq(styleRules, LAMBDA rule : rule.id \in selectedRuleIds)

\* offsetDelay, line 283
OffsetDelay(draggedRule, rule, delayMs) == delayMs - (draggedRule.delay - rule.delay)

\* offsetDuration, line 372
OffsetDuration(draggedRule, rule, durationMs) ==
    Max(0, durationMs - (draggedRule.duration - rule.duration))

\* the value the forEach over the selected rules asks for, for one rule
OffsetOf(what, draggedRule, rule, ms) ==
    IF what = "delay" THEN OffsetDelay(draggedRule, rule, ms)
    ELSE OffsetDuration(draggedRule, rule, ms)

\* the body of the forEach over the selected rules, for one rule
ChangeOf(t, what, draggedRule, rule, ms) ==
    UpdateRulePropertyValue(t, what, rule, OffsetOf(what, draggedRule, rule, ms))

\* the forEach over the selected rules: each rule's edit is dispatched before
\* the next rule is looked up in the document; a dispatch that raises ends the
\* handler
RECURSIVE EditEach(_, _, _, _, _, _)
EditEach(rs, k, acc, what, draggedRule, ms) ==
    IF k > Len(rs) THEN acc
    ELSE LET next(with) == EditEach(rs, k + 1, with, what, draggedRule, ms)
             dispatch(edit, after) ==
                 IF edit.change = NoChange THEN next(acc)
                 ELSE IF DispatchThrows(acc.text, edit.change)
                 THEN [acc EXCEPT !.threw = TRUE, !.refused = edit]
                 ELSE next([acc EXCEPT !.text = after, !.edits = Append(acc.edits, edit)])
             one(change) == dispatch([what |-> what, rule |-> rs[k].id, styleRule |-> rs[k],
                                      dragged |-> draggedRule.id, ms |-> ms,
                                      value |-> OffsetOf(what, draggedRule, rs[k], ms),
                                      before |-> acc.text, read |-> acc.text,
                                      change |-> change],
                                     Dispatch(acc.text, change))
         IN  one(ChangeOf(acc.text, what, draggedRule, rs[k], ms))

\* nothing looked up, dispatched or raised yet
NoEdits == [text |-> text, edits |-> <<>>, threw |-> FALSE, refused |-> NoChange]

\* what the handler looks up is not there: the rule's selector is not the
\* selector of a RuleSet of the document, no @keyframes of the document has the
\* rule's animation name, the store has no rule of that id
SelectorMissing(rule) ==
    \A n \in Range(RuleSets(text)) :
        SelectorOf(text, n) # SelectSeq(rule.selector, LAMBDA c : c # " ")

KeyframesMissing(rule) == KeyframesStatements(text, rule.animationName) = {}

Unknown(id) == \A rule \in Range(styleRules) : rule.id # id

\* what a handler of the facade did (observation): whether it raised, the
\* transaction the editor refused, the transactions it dispatched, whether
\* what it looks up was missing (or no editor attached), whether it changed
\* the document or the highlight
EdCall(op, r, missing) ==
    [op |-> op, threw |-> r.threw, refused |-> r.refused, dispatched |-> Len(r.edits),
     missing |-> ~editor \/ missing, changed |-> r.text # text]

DraggedRules(styleRuleId) == SelectSeq(styleRules, LAMBDA rule : rule.id = styleRuleId)

EditValues == {0, 50}     \* milliseconds the handlers are called with

\* onChangeDelay(styleRuleId, delayMs)
OnChangeDelay(styleRuleId, delayMs) ==
    LET found == DraggedRules(styleRuleId)
        r == IF found = <<>> THEN NoEdits
             ELSE EditEach(SelectedRules, 1, NoEdits, "delay", found[1], delayMs)
    IN  /\ editCount < MaxEdits
        /\ editCount' = editCount + 1
        /\ text' = r.text
        /\ edits' = r.edits
        /\ edCall' = EdCall("onChangeDelay", r,
                            \/ Unknown(styleRuleId)
                            \/ \A rule \in Range(SelectedRules) : SelectorMissing(rule))
        /\ UNCHANGED <<ctlVars, uiVars, styleRules, selectedRuleIds, editor, spotlight, parsed>>

\* onChangeDuration(styleRuleId, durationMs)
OnChangeDuration(styleRuleId, durationMs) ==
    LET found == DraggedRules(styleRuleId)
        r == IF found = <<>> THEN NoEdits
             ELSE EditEach(SelectedRules, 1, NoEdits, "duration", found[1], durationMs)
    IN  /\ editCount < MaxEdits
        /\ editCount' = editCount + 1
        /\ text' = r.text
        /\ edits' = r.edits
        /\ edCall' = EdCall("onChangeDuration", r,
                            \/ Unknown(styleRuleId)
                            \/ \A rule \in Range(SelectedRules) : SelectorMissing(rule))
        /\ UNCHANGED <<ctlVars, uiVars, styleRules, selectedRuleIds, editor, spotlight, parsed>>

\* the Block of the keyframe the handler aims at: the first Block met once more
\* than keyframeIndex keyframe selectors were counted (lines 201-216)
RECURSIVE TargetBlock(_, _, _, _)
TargetBlock(children, k, numberBlock, keyframeIndex) ==
    IF k > Len(children) THEN Node("none", Undefined, Undefined)
    ELSE IF children[k].name = "Block"
    THEN IF numberBlock > keyframeIndex THEN children[k]
         ELSE TargetBlock(children, k + 1, numberBlock, keyframeIndex)
    ELSE IF children[k].name \in {"NumberLiteral", "from", "to"}
    THEN TargetBlock(children, k + 1, numberBlock + 1, keyframeIndex)
    ELSE TargetBlock(children, k + 1, numberBlock, keyframeIndex)

\* the change updateEasing makes in the keyframe block (lines 222-242): the
\* value of its animation-timing-function, or a new declaration after "{"
KeyframeChange(t, blockNode, curve) ==
    LET declarationNodes == Declarations(t, blockNode.from + 1, <<>>)
        named == SelectSeq(declarationNodes,
                           LAMBDA d : PropertyNameOf(t, d) = <<"a", "n", "i", "m", "a", "t", "i", "o", "n", "-", "t", "i", "m", "i", "n", "g", "-", "f",
  "u", "n", "c", "t", "i", "o", "n">>)
    IN  IF named # <<>> /\ Len(named[1].rest) >= 2
        THEN Change(named[1].rest[2].from, named[1].rest[2].to, CurveString(curve))
        ELSE Change(blockNode.from + 1, blockNode.from + 1,
                                        <<"\n", " ", " ", " ", " ", "a", "n", "i", "m", "a", "t", "i", "o", "n",
                      "-", "t", "i", "m", "i", "n", "g", "-", "f", "u", "n", "c", "t", "i",
                      "o", "n", ":", " ">>
                        \o CurveString(curve) \o <<";">>)

\* the body of updateEasing once the rule, its keyframe and the editor state
\* are there: the edit of the keyframe block, then the edit of the rule whose
\* selector is the animation name
EasingEdits(matchingRule, keyframeIndex, curve) ==
    LET edit(t, read, change) == [what |-> "easing", rule |-> matchingRule.id,
                                  styleRule |-> matchingRule, keyframeIndex |-> keyframeIndex,
                                  before |-> t, read |-> read, change |-> change]
        both(first, after, second) ==
            IF second = NoChange
            THEN [NoEdits EXCEPT !.text = after, !.edits = <<edit(text, text, first)>>]
            ELSE [NoEdits EXCEPT !.text = Dispatch(after, second),
                                 !.edits = <<edit(text, text, first), edit(after, text, second)>>]
        rule(first, after) ==
            both(first, after,
                 UpdateRulePropertyValue(after, "easing",
                                         [matchingRule EXCEPT !.selector = matchingRule.animationName],
                                         [curve |-> curve, editorState |-> text]))
        keyframe(first) == rule(first, Dispatch(text, first))
        block(blockNode) == IF blockNode.name # "Block" THEN NoEdits
                            ELSE keyframe(KeyframeChange(text, blockNode, curve))
    IN  block(TargetBlock(GetMatchingKeyframeSyntaxNode(text, matchingRule.animationName).children,
                          1, 0, keyframeIndex))

\* the ControlPoints updateEasing is called with, in hundredths
EditCurves == {<<0, 0, 100, 100>>, <<25, 10, 25, 100>>}

\* updateEasing(styleRuleId, keyframeIndex, curve), lines 190-277
UpdateEasing(styleRuleId, keyframeIndex, curve) ==
    LET found == DraggedRules(styleRuleId)
        r == IF found = <<>> \/ keyframeIndex >= Len(found[1].keyframes) \/ ~editor THEN NoEdits
             ELSE EasingEdits(found[1], keyframeIndex, curve)
    IN  /\ editCount < MaxEdits
        /\ editCount' = editCount + 1
        /\ text' = r.text
        /\ edits' = r.edits
        /\ edCall' = EdCall("updateEasing", r,
                            \/ Unknown(styleRuleId)
                            \/ \A rule \in Range(found) : KeyframesMissing(rule))
        /\ UNCHANGED <<ctlVars, uiVars, styleRules, selectedRuleIds, editor, spotlight, parsed>>

\* highlightRule(rule) and highlightAnimationSource(rule), lines 445-465: one
\* transaction with the Spotlight effect over the node that was found
Highlight(op, nodes, missing) ==
    /\ spotlight' = IF nodes.found THEN [from |-> nodes.from, to |-> nodes.to] ELSE spotlight
    /\ edits' = <<>>
    /\ editCount < MaxEdits
    /\ editCount' = editCount + 1
    /\ edCall' = [EdCall(op, NoEdits, missing) EXCEPT !.dispatched = IF nodes.found THEN 1 ELSE 0,
                                                      !.changed = spotlight' # spotlight]
    /\ UNCHANGED <<ctlVars, uiVars, text, styleRules, selectedRuleIds, editor, parsed>>

HighlightRule(rule) ==
    Highlight("highlightRule", GetMatchingRuleSyntaxNode(text, rule.selector),
              SelectorMissing(rule))

HighlightAnimationSource(rule) ==
    Highlight("highlightAnimationSource",
              GetMatchingKeyframeSyntaxNode(text, rule.animationName), KeyframesMissing(rule))

\* removeHighlight(), lines 467-473
RemoveHighlight ==
    /\ spotlight # NoSpotlight
    /\ spotlight' = IF editor THEN NoSpotlight ELSE spotlight
    /\ edits' = <<>>
    /\ edCall' = [EdCall("removeHighlight", NoEdits, FALSE)
                       EXCEPT !.dispatched = IF editor THEN 1 ELSE 0,
                              !.changed = spotlight' # spotlight]
    /\ UNCHANGED <<ctlVars, uiVars, text, styleRules, selectedRuleIds, editCount, editor, parsed>>

\* the user replaces the document by typing; the store's rules are those of
\* the document before until the layout effect runs
TypedSheets == {Sheet12}

Type(sheet) ==
    /\ editor
    /\ text # sheet
    /\ editCount < MaxEdits
    /\ editCount' = editCount + 1
    /\ text' = sheet
    /\ edits' = <<>>
    /\ edCall' = [EdCall("type", NoEdits, FALSE) EXCEPT !.changed = TRUE]
    /\ UNCHANGED <<ctlVars, uiVars, styleRules, selectedRuleIds, editor, spotlight, parsed>>

\* toggleSelectRules(ruleIds), lines 178-189
ToggleSelectRules(ruleIds) ==
    /\ selectedRuleIds' = ruleIds
    /\ edits' = <<>>
    /\ edCall' = EdCall("toggleSelectRules", NoEdits, FALSE)
    /\ UNCHANGED <<ctlVars, uiVars, text, styleRules, editCount, editor, spotlight, parsed>>

\* the layout effect on cssSource, lines 85-94: the store's rules are computed
\* again from the edited stylesheet
UpdateStyleSheet ==
    /\ LET set(computed) == styleRules # computed /\ styleRules' = computed
       IN  set(ComputeRules(text))
    /\ edits' = <<>>
    /\ edCall' = EdCall("render", NoEdits, FALSE)
    /\ UNCHANGED <<ctlVars, uiVars, text, selectedRuleIds, editCount, editor, spotlight, parsed>>

\* Editing: every stylesheet of EditorSheets, rules selected and dragged.
InitEdit ==
    /\ InitCtl
    /\ doc = [n |-> 0, cdurs |-> <<0>>]
    /\ InitUi
    /\ text \in EditorSheets
    /\ styleRules = ComputeRules(text)
    /\ selectedRuleIds = {}
    /\ edits = <<>>
    /\ edCall = [op |-> "init", threw |-> FALSE, refused |-> NoChange, dispatched |-> 0,
                 missing |-> FALSE, changed |-> FALSE]
    /\ editCount = 0
    /\ editor \in BOOLEAN
    /\ spotlight = NoSpotlight
    /\ parsed = NoCall

NextEdit ==
    \/ \E id \in EditorRuleIds, ms \in EditValues : OnChangeDelay(id, ms)
    \/ \E id \in EditorRuleIds, ms \in EditValues : OnChangeDuration(id, ms)
    \/ \E ids \in SUBSET {styleRules[i].id : i \in 1..Len(styleRules)} : ToggleSelectRules(ids)
    \/ UpdateStyleSheet
    \/ \E id \in EditorRuleIds, k \in {0, 1}, curve \in EditCurves : UpdateEasing(id, k, curve)
    \/ \E rule \in Range(styleRules) : HighlightRule(rule)
    \/ \E rule \in Range(styleRules) : HighlightAnimationSource(rule)
    \/ RemoveHighlight
    \/ \E sheet \in TypedSheets : Type(sheet)

SpecEdit == InitEdit /\ [][NextEdit]_vars



\* ============================================================ parseStylesheet
\* Strings are sequences of characters. A number of a timing function is kept
\* in hundredths, so the numbers of the inputs have at most two decimals.

\* the argument `undefined` of parseCurve(timingFunction?: string)
NoString == <<"undefined">>

\* jumpTermMap
JumpTermMap ==
    (<<"j", "u", "m", "p", "-", "s", "t", "a", "r", "t">> :> "jump-start") @@
    (<<"j", "u", "m", "p", "-", "e", "n", "d">> :> "jump-end") @@
    (<<"j", "u", "m", "p", "-", "n", "o", "n", "e">> :> "jump-none") @@
    (<<"j", "u", "m", "p", "-", "b", "o", "t", "h">> :> "jump-both") @@
    (<<"s", "t", "a", "r", "t">> :> "jump-start") @@
    (<<"e", "n", "d">> :> "jump-end")

\* timingFunction.match(/steps\((\d),?\s*(.*)\s*\)/): the leftmost `steps(` that
\* is followed by one digit and, later, by a closing parenthesis; the second
\* group is greedy and runs up to the last closing parenthesis of the string
StepsMatch(s) ==
    LET opening == <<"s", "t", "e", "p", "s", "(">>
        closing == {j \in 1..Len(s) : s[j] = ")"}
        at == {i \in 1..(Len(s) - Len(opening)) :
                  /\ SubSeq(s, i, i + Len(opening) - 1) = opening
                  /\ IsDigit(s[i + Len(opening)])
                  /\ \E j \in closing : j > i + Len(opening)}
        group(i, p, last) == [matched |-> TRUE, digit |-> s[i + Len(opening)],
                              term |-> SubSeq(s, p, last - 1)]
        spaces(i, p) == group(i, CHOOSE k \in p..Len(s) :
                                     /\ s[k] \notin Whitespace
                                     /\ \A j \in p..(k - 1) : s[j] \in Whitespace,
                              CHOOSE j \in closing : \A k \in closing : k <= j)
        comma(i, p) == spaces(i, IF s[p] = "," THEN p + 1 ELSE p)
    IN  IF at = {} THEN [matched |-> FALSE, digit |-> "0", term |-> <<>>]
        ELSE comma(CHOOSE i \in at : \A j \in at : i <= j,
                   (CHOOSE i \in at : \A j \in at : i <= j) + Len(opening) + 1)

\* timingFunction.match(/-?(\d|\.)+/g): the maximal runs of digits and points,
\* each with the minus sign in front of it, left to right
RECURSIVE NumberTokens(_, _, _)
NumberTokens(s, i, acc) ==
    LET inRun(c) == IsDigit(c) \/ c = "."
        runEnd(k) == CHOOSE e \in k..Len(s) :
                        /\ \A j \in k..e : inRun(s[j])
                        /\ e = Len(s) \/ ~inRun(s[e + 1])
        token(e) == NumberTokens(s, e + 1, Append(acc, SubSeq(s, i, e)))
    IN  IF i > Len(s) THEN acc
        ELSE IF inRun(s[i]) THEN token(runEnd(i))
        ELSE IF s[i] = "-" /\ i < Len(s) /\ inRun(s[i + 1]) THEN token(runEnd(i + 1))
        ELSE NumberTokens(s, i + 1, acc)

\* parseFloat of such a run: the digits, one point and the digits after it;
\* NaN without a digit. The value is in hundredths.
ParseDecimal(token) ==
    LET body == IF token[1] = "-" THEN Tail(token) ELSE token
        digitsFrom(k) == CHOOSE n \in 0..Len(body) :
                            /\ \A j \in k..(k + n - 1) : j <= Len(body) /\ IsDigit(body[j])
                            /\ k + n > Len(body) \/ ~IsDigit(body[k + n])
        value(a, b) ==
            [nan |-> a + b = 0,
             value |-> (IF token[1] = "-" THEN -1 ELSE 1)
                       * (ParseDigits(body, 1, 0) * 100
                          + (IF b >= 1 THEN DigitValue(body[a + 2]) * 10 ELSE 0)
                          + (IF b >= 2 THEN DigitValue(body[a + 3]) ELSE 0))]
        fraction(a) == value(a, IF a < Len(body) /\ body[a + 1] = "." THEN digitsFrom(a + 2) ELSE 0)
    IN  fraction(digitsFrom(1))

\* parseCurve(timingFunction)
ParseCurve(timingFunction) ==
    LET ease == NamedCurves[<<"e", "a", "s", "e">>]
        steps(match) == [type |-> "steps", steps |-> DigitValue(match.digit),
                         jumpTerm |-> IF match.term \in DOMAIN JumpTermMap
                                      THEN JumpTermMap[match.term] ELSE "jump-end"]
        curve(controlPoints) ==
            IF Len(controlPoints) = 4 /\ \A k \in 1..4 : ~controlPoints[k].nan
            THEN [type |-> "curve", cps |-> [k \in 1..4 |-> controlPoints[k].value]]
            ELSE ease
        numbers(tokens) == curve([k \in 1..Len(tokens) |-> ParseDecimal(tokens[k])])
        other(match) ==
            IF match.matched THEN steps(match)
            ELSE IF Includes(timingFunction, <<"c", "u", "b", "i", "c", "-", "b", "e", "z", "i", "e", "r">>)
            THEN numbers(NumberTokens(timingFunction, 1, <<>>))
            ELSE ease
    IN  IF timingFunction = NoString THEN ease
        ELSE IF timingFunction \in DOMAIN NamedCurves THEN NamedCurves[timingFunction]
        ELSE other(StepsMatch(timingFunction))

\* serializeEasing(easing)
SerializeEasing(easing) ==
    LET jumpTerm == CHOOSE key \in DOMAIN JumpTermMap :
                        JumpTermMap[key] = easing.jumpTerm /\ Len(key) > Len(<<"s", "t", "a", "r", "t">>)
    IN  IF easing.type = "curve" THEN CurveString(easing.cps)
        ELSE <<"s", "t", "e", "p", "s", "(">> \o NumberToString(easing.steps) \o <<",", " ">>
                 \o jumpTerm \o <<")">>

\* splitTimingFunctions(timingFnString): the scan cuts at each comma met at
\* depth 0, the depth being the `[` less the `]` read so far; push() keeps an
\* item only if it is not empty
SplitTimingFunctions(timingFnString) ==
    LET depth(i) == Cardinality({k \in 1..(i - 1) : timingFnString[k] = "["})
                    - Cardinality({k \in 1..(i - 1) : timingFnString[k] = "]"})
        cuts == {i \in 1..Len(timingFnString) : timingFnString[i] = "," /\ depth(i) = 0}
        next(b) == CHOOSE e \in cuts \cup {Len(timingFnString) + 1} :
                       e > b /\ \A c \in cuts : c > b => e <= c
        items(starts) ==
            [n \in 1..Cardinality(starts) |->
                SubSeq(timingFnString,
                       (CHOOSE b \in starts : Cardinality({x \in starts : x <= b}) = n) + 1,
                       next(CHOOSE b \in starts : Cardinality({x \in starts : x <= b}) = n) - 1)]
    IN  items({b \in cuts \cup {0} : next(b) > b + 1})

\* parseDirection(directionIn)
ParseDirection(directionIn) ==
    IF directionIn \in {<<"n", "o", "r", "m", "a", "l">>,
                        <<"r", "e", "v", "e", "r", "s", "e">>,
                        <<"a", "l", "t", "e", "r", "n", "a", "t", "e">>}
    THEN directionIn
    ELSE <<"n", "o", "r", "m", "a", "l">>

\* parseFillMode(fillModeIn)
ParseFillMode(fillModeIn) ==
    IF fillModeIn \in {<<"n", "o", "n", "e">>,
                       <<"b", "a", "c", "k", "w", "a", "r", "d", "s">>,
                       <<"f", "o", "r", "w", "a", "r", "d", "s">>,
                       <<"b", "o", "t", "h">>}
    THEN fillModeIn
    ELSE <<"n", "o", "n", "e">>

\* The ids a call of computeRules has added when it starts, if the set were
\* kept from the call before instead of being made by the call.
AddedAlreadyIds_Kept ==
    IF parsed.fn = "computeRules"
    THEN {parsed.output[k].id : k \in {j \in 1..Len(parsed.output) :
                                          parsed.output[j].type = "animation"}}
    ELSE {}

\* const addedAlreadyIds = new Set<string>()
AddedAlreadyIds == {}

\* computeRules(rules) on the rules of a style sheet. A CSSStyleRule is
\* [type |-> "style", selectorText, style], each list property of its style
\* being the items that split(', ') gives and the timing functions one string;
\* a CSSKeyframesRule is [type |-> "keyframes", name, keyTexts]. Progress is in
\* percent.
ComputeStyleRules(cssRules) ==
    LET at(list, j) == IF j + 1 <= Len(list) THEN list[j + 1] ELSE NoString
        keyframeRules == {k \in 1..Len(cssRules) : cssRules[k].type = "keyframes"}
        progress(key) == IF key = <<"f", "r", "o", "m">> THEN 0
                         ELSE IF key = <<"t", "o">> THEN 100 ELSE ParseFloat(key)
        sorted(keyTexts) ==
            SortSeq([k \in 1..Len(keyTexts) |-> progress(keyTexts[k])], LAMBDA a, b : a < b)
        named(rs) == IF rs = {} THEN <<>>
                     ELSE sorted(cssRules[CHOOSE k \in rs : \A j \in rs : j <= k].keyTexts)
        animationKeyFrames(name) == named({k \in keyframeRules : cssRules[k].name = name})
        timed(duration) == IF duration = 0 THEN 1 ELSE duration
        count(iteration) == IF iteration = <<"i", "n", "f", "i", "n", "i", "t", "e">> THEN Undefined
                            ELSE IF iteration = NoString \/ ParseDigits(iteration, 1, 0) = 0 THEN 1
                            ELSE ParseDigits(iteration, 1, 0)
        animation(rule, st, curves, j) ==
            [id |-> st.animationName[j + 1] \o <<" ">> \o rule.selectorText \o <<" ">>
                        \o NumberToString(j),
             type |-> "animation",
             selector |-> rule.selectorText,
             animationName |-> st.animationName[j + 1],
             animationIndex |-> j,
             duration |-> timed(ParseDurationMs(ListAt(st.animationDuration, j))),
             delay |-> ParseDurationMs(ListAt(st.animationDelay, j)),
             easing |-> ListAt(curves, j),
             curve |-> ParseCurve(ListAt(curves, j)),
             direction |-> ParseDirection(at(st.animationDirection, j)),
             fillMode |-> ParseFillMode(at(st.animationFillMode, j)),
             iterationCount |-> count(at(st.animationIterationCount, j)),
             keyframes |-> animationKeyFrames(st.animationName[j + 1])]
        transition(rule, st, curves, j) ==
            [id |-> rule.selectorText \o <<" ">> \o st.transitionProperty[j + 1] \o <<" ">>
                        \o NumberToString(j),
             type |-> "transition",
             selector |-> rule.selectorText,
             animationName |-> <<"t", " ">> \o st.transitionProperty[j + 1],
             animationIndex |-> j,
             duration |-> ParseDurationMs(ListAt(st.transitionDuration, j)),
             delay |-> ParseDurationMs(ListAt(st.transitionDelay, j)),
             easing |-> ListAt(curves, j),
             curve |-> ParseCurve(ListAt(curves, j)),
             direction |-> <<"n", "o", "r", "m", "a", "l">>,
             fillMode |-> <<"b", "o", "t", "h">>,
             iterationCount |-> 1,
             keyframes |-> <<0, 100>>]
        animationSlots(rule, curves) ==
            [j \in 1..Len(rule.style.animationName) |-> animation(rule, rule.style, curves, j - 1)]
        transitionSlots(rule, curves) ==
            [j \in 1..Len(rule.style.transitionProperty) |->
                transition(rule, rule.style, curves, j - 1)]
        slots(rule) ==
            animationSlots(rule, SplitTimingFunctions(rule.style.animationTimingFunction))
            \o transitionSlots(rule, SplitTimingFunctions(rule.style.transitionTimingFunction))
        RECURSIVE reduce(_, _, _)
        RECURSIVE push(_, _, _, _, _)
        reduce(k, styleRulesSoFar, addedAlreadyIds) ==
            IF k > Len(cssRules) THEN styleRulesSoFar
            ELSE IF cssRules[k].type # "style" THEN reduce(k + 1, styleRulesSoFar, addedAlreadyIds)
            ELSE push(k, slots(cssRules[k]), 1, styleRulesSoFar, addedAlreadyIds)
        push(k, found, n, styleRulesSoFar, addedAlreadyIds) ==
            IF n > Len(found) THEN reduce(k + 1, styleRulesSoFar, addedAlreadyIds)
            ELSE IF found[n].type = "animation" /\ found[n].id \in addedAlreadyIds
            THEN push(k, found, n + 1, styleRulesSoFar, addedAlreadyIds)
            ELSE push(k, found, n + 1, Append(styleRulesSoFar, found[n]),
                      IF found[n].type = "animation" THEN addedAlreadyIds \cup {found[n].id}
                      ELSE addedAlreadyIds)
    IN  reduce(1, <<>>, AddedAlreadyIds)

\* --- the calls: the inputs the functions are applied to
\* a call that is about to be made
Pending(fn, input) == [fn |-> "none", call |-> fn, input |-> input]

MaxNames == 3       \* animation names of a style rule
MaxSteps == 10      \* largest step count of a steps() input

AnimationNames == <<<<"s", "p", "i", "n">>, <<"f", "a", "d", "e">>, <<"g", "r", "o", "w">>, <<"m", "o", "v", "e">>,
                    <<"n", "a", "m", "e">> >>

\* the well-formed timing functions: a named curve, cubic-bezier() of four
\* numbers (in hundredths), steps() of a count with or without a jump term
WellFormed ==
    [form : {"named"}, name : DOMAIN NamedCurves]
    \cup [form : {"bezier"}, cps : {<<a, b, c, d>> : a \in {0, 25}, c \in {25, 100},
                                                    b \in {-50, 10}, d \in {100, 150}}]
    \cup [form : {"steps"}, n : 1..MaxSteps, term : DOMAIN JumpTermMap \cup {<<>>}]

\* other arguments of parseCurve: undefined, the empty string, text, a curve
\* that is being typed
OtherInputs ==
    [form : {"other"},
     text : {NoString, <<>>, <<"f", "o", "o">>,
             <<"c", "u", "b", "i", "c", "-", "b", "e", "z", "i", "e", "r", "(", "0", ".", "1", ",">>,
             <<"c", "u", "b", "i", "c", "-", "b", "e", "z", "i", "e", "r", "(", ".", ",", "1", ",", "1",
  ",", "1", ")">>,
             <<"s", "t", "e", "p", "s", "(">>,
             <<"s", "t", "e", "p", "s", "(", "0", ",", " ", "e", "n", "d", ")">>}]

TimingFunctionText(w) ==
    IF w.form = "named" THEN w.name
    ELSE IF w.form = "bezier" THEN CurveString(w.cps)
    ELSE IF w.form = "steps"
    THEN <<"s", "t", "e", "p", "s", "(">> \o NumberToString(w.n)
             \o (IF w.term = <<>> THEN <<>> ELSE <<",", " ">> \o w.term) \o <<")">>
    ELSE w.text

\* parseCurve(timingFunction), and the easing it returns serialized and parsed
\* again
ParseCurveCall(w) ==
    LET call(out) == parsed' = [fn |-> "parseCurve", input |-> w, output |-> out,
                                again |-> ParseCurve(SerializeEasing(out))]
    IN  /\ parsed = Pending("parseCurve", w)
        /\ call(ParseCurve(TimingFunctionText(w)))
        /\ UNCHANGED <<ctlVars, uiVars, text, styleRules, selectedRuleIds, edits, edCall, editCount,
                       editor, spotlight>>

\* a timing-function list as the style declaration holds it: the items joined
\* by ", "
RECURSIVE JoinTimingFunctions(_)
JoinTimingFunctions(fns) ==
    IF Len(fns) = 1 THEN TimingFunctionText(fns[1])
    ELSE TimingFunctionText(fns[1]) \o <<",", " ">> \o JoinTimingFunctions(Tail(fns))

ListedTimingFunctions ==
    {[form |-> "named", name |-> <<"e", "a", "s", "e">>],
     [form |-> "named", name |-> <<"l", "i", "n", "e", "a", "r">>],
     [form |-> "bezier", cps |-> <<10, 20, 30, 40>>],
     [form |-> "steps", n |-> 2, term |-> <<"s", "t", "a", "r", "t">>]}

TimingLists == UNION {[1..n -> ListedTimingFunctions] : n \in 1..MaxNames}

\* splitTimingFunctions(timingFnString)
SplitCall(fns) ==
    /\ parsed = Pending("splitTimingFunctions", [list |-> fns])
    /\ parsed' = [fn |-> "splitTimingFunctions", input |-> [list |-> fns],
                  output |-> SplitTimingFunctions(JoinTimingFunctions(fns))]
    /\ UNCHANGED <<ctlVars, uiVars, text, styleRules, selectedRuleIds, edits, edCall, editCount,
                   editor, spotlight>>

\* the style sheets computeRules is applied to: a rule `.a` with n animation
\* names and the lists of its sub-properties, with or without a transition,
\* once or twice in the sheet, and the @keyframes of the first name
DurationLists ==
    {<<<<"2", "0", "0", "m", "s">>>>,
     <<<<"2", "0", "0", "m", "s">>, <<"4", "0", "0", "m", "s">>>>}

StyleTimings ==
    {<< [form |-> "named", name |-> <<"e", "a", "s", "e">>] >>,
     << [form |-> "bezier", cps |-> <<10, 20, 30, 40>>],
        [form |-> "named", name |-> <<"e", "a", "s", "e">>] >>}

StyleInputs ==
    [names : {SubSeq(AnimationNames, 1, n) : n \in 1..MaxNames},
     durations : DurationLists,
     delays : {<<<<"0", "m", "s">>>>},
     directions : {<<<<"n", "o", "r", "m", "a", "l">>>>,
                   <<<<"r", "e", "v", "e", "r", "s", "e">>>>},
     fillModes : {<<<<"n", "o", "n", "e">>>>,
                  <<<<"f", "o", "r", "w", "a", "r", "d", "s">>>>},
     iterations : {<<<<"1">>>>, <<<<"3">>>>},
     timing : StyleTimings,
     transition : BOOLEAN,
     twice : BOOLEAN,
     keyTexts : {<<>>, <<<<"5", "0", "%">>>>,
                 <<<<"1", "0", "0", "%">>, <<"0", "%">>>>}]

CssRules(in) ==
    LET style == [animationName |-> in.names,
                  animationDuration |-> in.durations,
                  animationDelay |-> in.delays,
                  animationDirection |-> in.directions,
                  animationFillMode |-> in.fillModes,
                  animationIterationCount |-> in.iterations,
                  animationTimingFunction |-> JoinTimingFunctions(in.timing),
                  transitionProperty |-> IF in.transition THEN <<<<"o", "p", "a", "c", "i", "t", "y">>>>
                                         ELSE <<>>,
                  transitionDuration |-> <<<<"1", "s">>>>,
                  transitionDelay |-> <<<<"0", "m", "s">>>>,
                  transitionTimingFunction |-> <<"e", "a", "s", "e">>]
        rule == [type |-> "style", selectorText |-> <<".", "a">>, style |-> style]
        keyframes == [type |-> "keyframes", name |-> in.names[1], keyTexts |-> in.keyTexts]
    IN  <<rule>> \o (IF in.twice THEN <<rule>> ELSE <<>>)
               \o (IF in.keyTexts = <<>> THEN <<>> ELSE <<keyframes>>)

\* computeRules(styleEl.sheet.cssRules)
ComputeRulesCall(in) ==
    LET call(cssRules) == parsed' = [fn |-> "computeRules", input |-> in, rules |-> cssRules,
                                     output |-> ComputeStyleRules(cssRules)]
    IN  /\ parsed = Pending("computeRules", in)
        /\ call(CssRules(in))
        /\ UNCHANGED <<ctlVars, uiVars, text, styleRules, selectedRuleIds, edits, edCall, editCount,
                       editor, spotlight>>

\* The inputs with the names, selectors and slots of an input and any of the
\* durations and timing functions.
Variants(in) ==
    {[in EXCEPT !.durations = d, !.timing = t] : d \in DurationLists, t \in StyleTimings}

\* computeRules called once more, on the same sheet or on one that differs in
\* its durations and timing functions only
ComputeRulesAgain(in) ==
    LET call(cssRules) ==
            parsed' = [fn |-> "computeRules", input |-> parsed.input, rules |-> parsed.rules,
                       output |-> parsed.output,
                       again |-> [input |-> in, rules |-> cssRules,
                                  output |-> ComputeStyleRules(cssRules)]]
    IN  /\ parsed.fn = "computeRules"
        /\ "again" \notin DOMAIN parsed
        /\ call(CssRules(in))
        /\ UNCHANGED <<ctlVars, uiVars, text, styleRules, selectedRuleIds, edits, edCall, editCount,
                       editor, spotlight>>

\* Parsing: each function of parseStylesheet applied to each of its inputs.
InitParse ==
    /\ InitCtl
    /\ doc = [n |-> 0, cdurs |-> <<0>>]
    /\ InitUi
    /\ text = <<"a", "{", "}">>
    /\ styleRules = <<>>
    /\ selectedRuleIds = {}
    /\ edits = <<>>
    /\ edCall = [op |-> "init", threw |-> FALSE, refused |-> NoChange, dispatched |-> 0,
                 missing |-> FALSE, changed |-> FALSE]
    /\ editCount = 0
    /\ editor = TRUE
    /\ spotlight = NoSpotlight
    /\ parsed \in {Pending("parseCurve", w) : w \in WellFormed \cup OtherInputs}
                  \cup {Pending("splitTimingFunctions", [list |-> fns]) : fns \in TimingLists}
                  \cup {Pending("computeRules", in) : in \in StyleInputs}

NextParse ==
    \/ \E w \in WellFormed \cup OtherInputs : ParseCurveCall(w)
    \/ \E fns \in TimingLists : SplitCall(fns)
    \/ \E in \in StyleInputs : ComputeRulesCall(in)
    \/ /\ parsed.fn = "computeRules"
       /\ \E in \in Variants(parsed.input) : ComputeRulesAgain(in)

SpecParse == InitParse /\ [][NextParse]_vars

\* ============================================================ properties
ControlOps == {"play", "pause", "toggle", "reset"}

\* The (rule, matched element) pairs of the animation rules of a rule list.
MatchedElements(d, rule) ==
    LET q == QuerySelectorAll(d, PseudoElMatch(rule.selector).selector)
    IN  IF q.threw THEN <<>> ELSE q.elements

DesiredIds(rs, d) ==
    {<<rs[k].id, i - 1>> : k \in {j \in 1..Len(rs) : rs[j].type = "animation"},
                           i \in 1..MaxEls + 1} \cap
    UNION {{<<rs[k].id, i - 1>> : i \in 1..Len(MatchedElements(d, rs[k]))} :
           k \in {j \in 1..Len(rs) : rs[j].type = "animation"}}

RuleWithId(rs, id) == {k \in 1..Len(rs) : rs[k].id = id /\ rs[k].type = "animation"}

\* C1: an animation whose identity is bound before and after updateRules stays
\* the same native object, gets the keyframes of its rule, and keeps its
\* currentTime and its playing/paused state.
C1_UpdatedInPlace ==
    [][lastOp'.op = "updateRules" =>
        \A id \in DOMAIN animationSet \cap DOMAIN animationSet' :
            LET o == animationSet[id]
            IN  /\ animationSet'[id] = o
                /\ o \in DOMAIN host /\ o \in DOMAIN host'
                /\ o \notin lastOp'.fresh
                /\ host'[o].currentTime = host[o].currentTime
                /\ host'[o].playState = host[o].playState
                /\ \A k \in RuleWithId(rules', id[1]) :
                        /\ host'[o].keyframes = rules'[k].keyframes
                        /\ host'[o].fill = rules'[k].fillMode]_vars

\* C2: after updateRules(rules) the bound animations are exactly the (rule,
\* matched element) pairs of the animation rules; the previously bound ones
\* that are absent from that set are cancelled.
C2_BoundSetExact ==
    [][lastOp'.op = "updateRules" =>
        /\ DOMAIN animationSet' = DesiredIds(rules', doc')
        /\ {host'[o].id : o \in Range(animations')} = DesiredIds(rules', doc')
        /\ \A o \in Range(animations) :
              host[o].id \notin DesiredIds(rules', doc') => o \notin DOMAIN host']_vars

\* C3: reset() leaves no animation that was bound before it active in the host,
\* sets PlayState to {running, 0} and rebinds from the last rule list.
C3_ResetCancelsAll ==
    [][lastOp'.op = "reset" =>
        /\ \A o \in Range(animations) : o \notin DOMAIN host' \/ o \in lastOp'.fresh
        /\ playState' = [status |-> "running", offsetTime |-> 0]
        /\ DOMAIN animationSet' = DesiredIds(rules, doc')]_vars

\* C4: updateRules called again with the same rule list and an unchanged
\* document creates and cancels nothing and changes neither the bound set,
\* the animations nor the PlayState.
C4_Idempotent ==
    [][(lastOp.op \in {"updateRules", "reset"} /\ lastOp'.op = "updateRules" /\ rules' = rules) =>
        /\ lastOp'.fresh = {}
        /\ host' = host
        /\ animations' = animations
        /\ animationSet' = animationSet
        /\ playState' = playState]_vars

\* C5, counting from the most recent play: pause(t) seeks every bound
\* animation to t, pauses it and leaves {paused, t}; pause() while running
\* pauses every bound animation and leaves offsetTime = the offset before +
\* the time elapsed since the most recent play.
C5_PauseSincePlay ==
    [][lastOp'.op = "pause" =>
        /\ playState'.status = "paused"
        /\ \A o \in Range(animations') : o \in DOMAIN host' /\ host'[o].playState = "paused"
        /\ lastOp'.arg # NoOffset =>
              /\ playState'.offsetTime = lastOp'.arg
              /\ \A o \in Range(animations') : host'[o].currentTime = lastOp'.arg
        /\ (lastOp'.arg = NoOffset /\ playState.status = "running" /\ playedAt # Undefined) =>
              playState'.offsetTime = playState.offsetTime + (now - playedAt)]_vars

\* C5, counting from the last start: pause(t) seeks every bound animation to t,
\* pauses it and leaves {paused, t}; pause() while running pauses every bound
\* animation and leaves offsetTime = the offset before + the time elapsed since
\* the controller last started running (the most recent play or reset, or its
\* construction).
C5_Pause ==
    [][lastOp'.op = "pause" =>
        /\ playState'.status = "paused"
        /\ \A o \in Range(animations') : o \in DOMAIN host' /\ host'[o].playState = "paused"
        /\ lastOp'.arg # NoOffset =>
              /\ playState'.offsetTime = lastOp'.arg
              /\ \A o \in Range(animations') : host'[o].currentTime = lastOp'.arg
        /\ (lastOp'.arg = NoOffset /\ playState.status = "running") =>
              playState'.offsetTime = playState.offsetTime + (now - startedAt)]_vars

C5_Witness ==
    /\ lastOp.op = "pause" /\ lastOp.arg = NoOffset /\ lastOp.was = "running"
    /\ now > startedAt
    /\ playState.offsetTime > now - startedAt
    /\ Len(animations) >= 2

\* C6: after play(offset?) the status is running, the offset is the given one
\* (or unchanged), every bound animation whose current time, after the seek, is
\* before its end time is playing, and one at or past its end is not resumed.
C6_Play ==
    [][lastOp'.op = "play" =>
        /\ playState'.status = "running"
        /\ playState'.offsetTime =
              (IF lastOp'.arg # NoOffset THEN lastOp'.arg ELSE playState.offsetTime)
        /\ \A o \in Range(animations) :
              LET t == IF lastOp'.arg # NoOffset THEN lastOp'.arg ELSE host[o].currentTime
              IN  IF t < EndTime(host[o])
                  THEN host'[o].playState = "running"
                  ELSE host'[o].playState = host[o].playState]_vars

\* C7: play, pause, toggle and reset invoke every subscribed callback once per
\* subscription, in order, with the PlayState that getState() returns after the
\* call (subscribers that do not call back into the controller).
GetState == playState

C7_NotifiesAll ==
    [][(lastOp'.op \in ControlOps /\ \A i \in 1..Len(callbacks) : Unsubscribes(callbacks[i]) = {}) =>
        /\ Len(lastOp'.calls) = Len(callbacks)
        /\ \A i \in 1..Len(callbacks) :
              /\ lastOp'.calls[i].cb = callbacks[i]
              /\ lastOp'.calls[i].state = GetState']_vars

C7_Witness ==
    /\ lastOp.op = "reset" /\ lastOp.was = "paused"
    /\ Len(lastOp.calls) = 2
    /\ \A i \in 1..2 : Unsubscribes(lastOp.calls[i].cb) = {}

\* C8: a callback is never invoked after its unsubscribe function was called,
\* also when that happens inside another subscriber's callback.
C8_NoCallAfterUnsubscribe == lastOp.late = {}

\* C9: updateRules never raises, and leaves no animation it created untracked.
C9_NeverRaises ==
    lastOp.op \in {"updateRules", "reset"} =>
        /\ ~lastOp.threw
        /\ lastOp.fresh \subseteq Range(animations)

\* C10: every edit of onChangeDelay / onChangeDuration is one change that
\* replaces exactly the range of one time-value token of a declaration of the
\* rule's property, or is a pure insertion into an item that has no delay token;
\* every character outside the range is unchanged.
TimeTokens(t, kind) ==
    {n \in UNION {Range(d.rest) : d \in {x \in Range(BlockDeclarations(t)) :
                                            SubSeq(PropertyNameOf(t, x), 1, Len(kind)) = kind}} :
        IsTime(t, n)}

ItemAt(d, pos) ==
    Slots(d.rest)[1 + Cardinality({k \in 1..Len(d.rest) : d.rest[k].name = "," /\ d.rest[k].to <= pos})]

TextAfter(i) == IF i < Len(edits) THEN edits[i + 1].before ELSE text

C10_OneTokenEdit ==
    \A i \in 1..Len(edits) :
        LET c == edits[i].change
            t == edits[i].before
            after == TextAfter(i)
        IN  edits[i].what \in {"delay", "duration"} =>
            /\ \/ \E n \in TimeTokens(t, edits[i].styleRule.type) : n.from = c.from /\ n.to = c.to
               \/ /\ c.from = c.to
                  /\ \E d \in Range(BlockDeclarations(t)) :
                        /\ d.firstChild.from <= c.from /\ c.from <= d.to
                        /\ Len(Times(t, ItemAt(d, c.from))) < 2
            /\ SubSeq(after, 1, c.from) = SubSeq(t, 1, c.from)
            /\ SubSeq(after, c.from + Len(c.insert) + 1, Len(after)) = SubSeq(t, c.to + 1, Len(t))

\* C11: every edit the handlers dispatch carries a selection whose anchor is
\* the start of the replaced or inserted range and whose head is the anchor
\* plus the length of the inserted text, within the document after the edit.
Attempted ==
    Range(edits) \cup (IF edCall.refused = NoChange THEN {} ELSE {edCall.refused})

C11_SelectionCoversInsert ==
    \A e \in Attempted :
        /\ e.change.anchor = e.change.from
        /\ e.change.head = e.change.anchor + Len(e.change.insert)
        /\ e.change.head <= Len(Dispatch(e.before, e.change))

\* C12: for a rule with animationIndex N, the token a handler modifies is in
\* item min(N, k - 1) of the k comma-separated items of its declaration,
\* shorthand or longhand.
DeclarationAt(t, pos) ==
    CHOOSE d \in Range(BlockDeclarations(t)) : d.firstChild.from <= pos /\ pos <= d.to

ItemIndexAt(d, pos) ==
    Cardinality({k \in 1..Len(d.rest) : d.rest[k].name = "," /\ d.rest[k].to <= pos})

C12_ItemOfRule ==
    \A e \in {x \in Attempted : x.what \in {"delay", "duration"}} :
        LET d == DeclarationAt(e.before, e.change.from)
        IN  ItemIndexAt(d, e.change.from) = Min(e.styleRule.animationIndex, Len(Slots(d.rest)) - 1)

\* C13: a drag of a known rule, with a selected rule whose body is found in the
\* document, always results in an edit (a declaration is inserted after the
\* opening brace when none carries the property for the slot); the calls whose
\* dispatch is refused are left aside.
C13_AlwaysEdits ==
    [][\A id \in EditorRuleIds, ms \in EditValues :
          (/\ OnChangeDelay(id, ms) \/ OnChangeDuration(id, ms)
           /\ DraggedRules(id) # <<>>
           /\ \E rule \in Range(SelectedRules) :
                  GetMatchingRuleSyntaxNode(text, rule.selector).found)
          => (edits' # <<>> \/ edCall'.threw)]_vars

\* C14: a handler of the facade that has no editor, or is given a rule id the
\* store does not know, or whose rule's selector (the keyframes name, for
\* updateEasing and highlightAnimationSource) is not in the document,
\* dispatches nothing, raises nothing and leaves the document and the
\* highlight as they were (the handlers never write the store).
FacadeOps ==
    {"onChangeDelay", "onChangeDuration", "updateEasing", "highlightRule",
     "highlightAnimationSource"}

C14_NotFoundNoOp ==
    (edCall.op \in FacadeOps /\ edCall.missing) =>
        (edCall.dispatched = 0 /\ ~edCall.threw /\ ~edCall.changed /\ edits = <<>>)

\* a drag of a selected rule and an updateEasing of a rule with keyframes,
\* after the document lost the rule's selector and its @keyframes
C14_Witness ==
    /\ edCall.op \in {"onChangeDelay", "updateEasing"}
    /\ edCall.missing /\ editor
    /\ \E rule \in Range(SelectedRules) :
          /\ rule.type = PropAnimation /\ rule.keyframes # <<>>
          /\ SelectorMissing(rule) /\ KeyframesMissing(rule)

\* list[min(j, list.length - 1)]
ClampedItem(list, j) == list[Min(j, Len(list) - 1) + 1]

\* C15: for a style rule with n animation names, slot j of the extraction has,
\* for each of duration, delay, timing function, direction, fill mode and
\* iteration count, the item min(j, len - 1) of that sub-property's own list.
C15_ClampToLast ==
    parsed.fn = "computeRules" =>
        \A j \in 0..(Len(parsed.input.names) - 1) :
            LET slot == parsed.output[j + 1]
                style == parsed.rules[1].style
            IN  /\ slot.animationName = style.animationName[j + 1]
                /\ slot.duration = ParseDurationMs(ClampedItem(style.animationDuration, j))
                /\ slot.delay = ParseDurationMs(ClampedItem(style.animationDelay, j))
                /\ slot.curve = ParseCurve(ClampedItem(
                                     SplitTimingFunctions(style.animationTimingFunction), j))
                /\ slot.direction = ClampedItem(style.animationDirection, j)
                /\ slot.fillMode = ClampedItem(style.animationFillMode, j)
                /\ slot.iterationCount
                       = ParseDigits(ClampedItem(style.animationIterationCount, j), 1, 0)

\* C16: no two StyleRules of a list returned by the extraction have the same
\* id, whether they are animations or transitions.
C16_UniqueIds ==
    parsed.fn = "computeRules" =>
        \A i, k \in 1..Len(parsed.output) :
            i # k => parsed.output[i].id # parsed.output[k].id

\* C17: the keyframe list of every StyleRule returned by the extraction is in
\* ascending order of progress and has an entry at progress 0 and an entry at
\* progress 1 (100 percent).
C17_EndKeyframes ==
    parsed.fn = "computeRules" =>
        \A rule \in Range(parsed.output) :
            /\ \A i, k \in 1..Len(rule.keyframes) :
                   i < k => rule.keyframes[i] <= rule.keyframes[k]
            /\ 0 \in Range(rule.keyframes)
            /\ 100 \in Range(rule.keyframes)

\* C18: the splitter never cuts inside a timing function: a list of n timing
\* functions gives n items, item j being the j-th timing function whole, so
\* that its parse is the parse of the j-th timing function.
C18_SplitPerSlot ==
    parsed.fn = "splitTimingFunctions" =>
        /\ Len(parsed.output) = Len(parsed.input.list)
        /\ \A j \in 1..Len(parsed.input.list) :
               /\ SelectSeq(parsed.output[j], LAMBDA c : c \notin Whitespace)
                      = SelectSeq(TimingFunctionText(parsed.input.list[j]),
                                  LAMBDA c : c \notin Whitespace)
               /\ ParseCurve(parsed.output[j])
                      = ParseCurve(TimingFunctionText(parsed.input.list[j]))

\* what a well-formed timing function denotes: the control points of the named
\* curve or of cubic-bezier(), or the count and the jump term of steps(), which
\* is jump-end when no term is given
Denoted(w) ==
    IF w.form = "named" THEN NamedCurves[w.name]
    ELSE IF w.form = "bezier" THEN [type |-> "curve", cps |-> w.cps]
    ELSE [type |-> "steps", steps |-> w.n,
          jumpTerm |-> IF w.term = <<>> THEN "jump-end" ELSE JumpTermMap[w.term]]

\* C19: for a well-formed timing function s, parseCurve(s) has the control
\* points, or the step count and the jump term, that s denotes, and parsing the
\* serialized result gives the same easing again.
C19_ParseDenotes ==
    (parsed.fn = "parseCurve" /\ parsed.input.form # "other") =>
        /\ parsed.output = Denoted(parsed.input)
        /\ parsed.again = parsed.output

\* a TimelineEasing: a curve of four numbers, or steps of a count of at least 1
\* with one of the four jump terms
ValidEasing(easing) ==
    \/ easing.type = "curve" /\ Len(easing.cps) = 4
    \/ /\ easing.type = "steps"
       /\ easing.steps >= 1
       /\ easing.jumpTerm \in {"jump-start", "jump-end", "jump-none", "jump-both"}

\* C20: parseCurve returns a valid TimelineEasing for every input, and the
\* `ease` curve for an input that matches no form.
C20_AlwaysValid ==
    parsed.fn = "parseCurve" =>
        /\ ValidEasing(parsed.output)
        /\ (parsed.input.form = "other" /\ ~StepsMatch(parsed.input.text).matched)
               => parsed.output = NamedCurves[<<"e", "a", "s", "e">>]

\* C21: the changes of htmlSource of a burst, each less than the debounce wait
\* after the one before, cause one rebuild of the markup (and one reset), made
\* after the burst has ended and with the markup the burst ended on.
C21_OneRebuildPerBurst ==
    (/\ changedAt # <<>>
     /\ \A k \in 2..Len(changedAt) : changedAt[k] - changedAt[k - 1] < DebounceWait)
        => /\ Len(rebuilds) <= 1
           /\ \A k \in 1..Len(rebuilds) :
                  /\ rebuilds[k].at >= changedAt[Len(changedAt)] + DebounceWait
                  /\ rebuilds[k].html = htmlSource

\* C22: every edit of onChangeDelay, onChangeDuration and updateEasing reads
\* its text from the version of the document it is applied to, and the rule
\* list it uses has the ids (name, selector, slot index) of the rules of that
\* version.
C22_OneVersion ==
    \A i \in 1..Len(edits) :
        /\ edits[i].read = edits[i].before
        /\ [k \in 1..Len(styleRules) |-> styleRules[k].id]
               = [k \in 1..Len(ComputeRules(edits[i].before)) |->
                     ComputeRules(edits[i].before)[k].id]

\* C23: two extractions from the same rule collection return lists of the
\* same length with the same ids in the same order and the same timing
\* fields, and the id of a rule depends on its kind, its animation or
\* property name, its selector and its slot index only.
TimingFields(rule) ==
    <<rule.duration, rule.delay, rule.easing, rule.curve, rule.direction, rule.fillMode,
      rule.iterationCount, rule.keyframes>>

IdSource(rule) == <<rule.type, rule.animationName, rule.selector, rule.animationIndex>>

Extracted == parsed.fn = "computeRules" /\ "again" \in DOMAIN parsed

C23_VariantWitness ==
    /\ Extracted
    /\ parsed.again.rules # parsed.rules
    /\ parsed.again.output # <<>>

\* C24: an animation that updateRules has just created has the controller's
\* offsetTime as its currentTime, and is paused when the controller is paused
\* and playing when it is running.
C24_NewAtOffset ==
    lastOp.op = "updateRules" =>
        \A o \in lastOp.fresh \cap DOMAIN host :
            /\ host[o].currentTime = playState.offsetTime
            /\ host[o].playState = playState.status

\* The Blocks of the @keyframes of a rule, in document t, whose keyframe
\* selectors name the progress of keyframe k of the rule.
DefiningBlocks(t, rule, k) ==
    LET progress(n) == IF n.name = "from" THEN 0 ELSE IF n.name = "to" THEN 100
                       ELSE ParseFloat(SliceDoc(t, n.from, n.to))
        defining(list) ==
            {list[b] : b \in {c \in 1..Len(list) :
                /\ list[c].name = "Block"
                /\ \E n \in 1..(c - 1) :
                       /\ list[n].name \in {"from", "to", "NumberLiteral"}
                       /\ progress(list[n]) = rule.keyframes[k + 1]
                       /\ \A m \in (n + 1)..(c - 1) : list[m].name # "Block"}}
        last(at) == IF at = {} THEN {}
                    ELSE defining(KeyframeListAt(t, CHOOSE i \in at : \A j \in at : j <= i).nodes)
    IN  last(KeyframesStatements(t, rule.animationName))

\* C25: every change updateEasing(ruleId, k, cps) makes lies inside the
\* keyframe block that defines keyframe k of the rule, in ascending order of
\* progress; no other block is changed.
C25_DefiningBlock ==
    \A i \in 1..Len(edits) :
        edits[i].what = "easing" =>
            \E b \in DefiningBlocks(edits[i].before, edits[i].styleRule, edits[i].keyframeIndex) :
                /\ b.from + 1 <= edits[i].change.from
                /\ edits[i].change.to <= b.to - 1

\* C26: when a selected rule is dragged to delay (duration) d and an edit is
\* dispatched for it, the rules extracted from the edited document have a rule
\* of its id whose delay (duration) is d, and every rule that was not selected
\* is extracted with the delay and duration it had.
TimeEdits == {i \in 1..Len(edits) : edits[i].what \in {"delay", "duration"}}

Reextracted(rule) ==
    {r \in Range(ComputeRules(text)) : r.id = rule.id}

C26_RoundTrip ==
    TimeEdits # {} =>
        /\ \A i \in TimeEdits :
               edits[i].rule = edits[i].dragged =>
                   \E r \in Reextracted(edits[i].styleRule) :
                       IF edits[i].what = "delay" THEN r.delay = edits[i].ms
                       ELSE r.duration = edits[i].ms
        /\ \A rule \in Range(ComputeRules(edits[1].before)) :
               rule.id \notin selectedRuleIds =>
                   \E r \in Reextracted(rule) :
                       r.delay = rule.delay /\ r.duration = rule.duration

\* The RuleSets of document t that a rule of that id is extracted from: the
\* first one for an animation, whose later namesakes are left out.
SourceBlocks(t, rule) ==
    LET of(n) == RulesOfKind(t, Declarations(t, n.block + 1, <<>>), rule.type, SelectorOf(t, n))
        having == SelectSeq(RuleSets(t), LAMBDA n : \E r \in Range(of(n)) : r.id = rule.id)
    IN  IF rule.type = PropAnimation /\ having # <<>> THEN {having[1]} ELSE Range(having)

\* C27: a delay or duration edit for a rule changes the rule block the rule
\* was extracted from, also when other blocks have the same selector text.
C27_OwnBlock ==
    \A i \in TimeEdits :
        \E n \in SourceBlocks(edits[i].before, edits[i].styleRule) :
            /\ n.block + 1 <= edits[i].change.from
            /\ edits[i].change.to <= n.to - 1

\* C28: after pause() without an offset, offsetTime is the offset last set by
\* play(t), pause(t) or reset (0 at first) plus the time the controller was
\* running since; a second play() while running loses none of it and a second
\* pause() adds none.
C28_TotalElapsed ==
    (lastOp.op \in {"pause", "toggle"} /\ lastOp.arg = NoOffset /\ playState.status = "paused")
        => playState.offsetTime = elapsed.from + elapsed.ran

\* C29: while the status is paused every bound animation is paused, and from
\* a pause(t) until the next play or reset every bound animation, also one
\* that updateRules created in between, has currentTime t.
C29_PausedAtOffset ==
    /\ playState.status = "paused" =>
           \A o \in Range(animations) : o \in DOMAIN host /\ host[o].playState = "paused"
    /\ elapsed.pausedAt # NoOffset =>
           /\ playState.status = "paused"
           /\ \A o \in Range(animations) : host[o].currentTime = elapsed.pausedAt

C29_Witness ==
    /\ elapsed.pausedAt = 2
    /\ lastOp.op = "updateRules"
    /\ lastOp.fresh # {}
    /\ lastOp.kept > 0
    /\ now > 1

\* The value the claim gives a selected rule when the rule of id `dragged` is
\* dragged to ms.
Preserving(what, dragged, rule, ms) ==
    LET by(draggedRule) ==
            IF what = "delay" THEN ms - (draggedRule.delay - rule.delay)
            ELSE Max(0, ms - (draggedRule.duration - rule.duration))
    IN  by(CHOOSE r \in Range(styleRules) : r.id = dragged)

\* C30: onChangeDelay and onChangeDuration edit selected rules only, each at
\* most once and with the dragged value shifted by the rule's distance to the
\* dragged rule; a rule that is not selected is not edited and keeps its delay
\* and duration.
C30_SelectedOnly ==
    TimeEdits # {} =>
        /\ \A i \in TimeEdits :
               LET e == edits[i]
                   written == Ms(Preserving(e.what, e.dragged, e.styleRule, e.ms))
               IN  /\ e.rule \in selectedRuleIds
                   /\ e.change.insert \in {written, <<" ">> \o written}
        /\ \A i, j \in TimeEdits : i # j => edits[i].rule # edits[j].rule
        /\ \A rule \in Range(ComputeRules(edits[1].before)) :
               rule.id \notin selectedRuleIds =>
                   \E r \in Range(ComputeRules(text)) :
                       r.id = rule.id /\ r.delay = rule.delay /\ r.duration = rule.duration

====
